---- MODULE Spec2Model ----
(***************************************************************************)
(* A model of the IR core of Command-Block-Assembly (cmd_ir/core.py):      *)
(* instruction sequences and basic blocks, the IRFunction lifecycle, the   *)
(* TopLevel unit with its linker and write-out, inlining and ObjectFormat. *)
(*                                                                         *)
(* Python exceptions are modelled as results [ok |-> FALSE, ...] that      *)
(* carry the object as it was left when the exception was raised, so a     *)
(* handler that fails half-way keeps its partial effects.                  *)
(***************************************************************************)
EXTENDS Integers, Sequences, FiniteSets, TLC

VARIABLES
    fn,       \* one IRFunction: signature, flags, blocks, stack locals
    fres,     \* outcome of the last operation on fn
    objs,     \* the heap: id -> function, extern stub or entity
    tops,     \* the TopLevel units, in creation order
    tres,     \* outcome of the last operation on a unit
    written,  \* what the writer of the last write-out received
    linked,   \* outcome of TopLevel.linker
    caller,   \* the function that another function is inlined into
    ires,     \* outcome of inline_into
    blob,     \* the bytes ObjectFormat.save produced
    loaded,   \* outcome of ObjectFormat.load
    pool,     \* a TemporaryVarGen: free cells, cells in use, counter
    pres,     \* outcome of the last operation on the pool
    scopes,   \* a chain of Scopes, the root first
    sres,     \* outcome of the last operation on a Scope
    sblk,     \* the usage state of one SuperBlock
    ures,     \* outcome of the last usage operation
    seq,      \* one holder: a block, a Preamble and the holder's scope
    qres      \* outcome of the last named add

funcVars == <<fn, fres>>
topVars == <<objs, tops, tres, written, linked>>
inlineVars == <<caller, ires>>
objectVars == <<blob, loaded>>
poolVars == <<pool, pres>>
scopeVars == <<scopes, sres>>
usageVars == <<sblk, ures>>
seqVars == <<seq, qres>>
auxVars == <<poolVars, scopeVars, usageVars, seqVars>>
vars == <<fn, fres, objs, tops, tres, written, linked, caller, ires, blob, loaded,
          pool, pres, scopes, sres, sblk, ures, seq, qres>>

----------------------------------------------------------------------------
(* Bounds of the model *)

MaxBlocks == 2      \* user blocks created in one function
MaxInsns == 2       \* instructions appended to one block by the front end
MaxLocals == 3      \* stack-resident locals of one function
MaxOffset == 2      \* largest frame offset a local may be given
MaxParams == 2      \* parameters (and returns) of one function
MaxTemps == 3       \* scratch cells one pool mints
MaxDeferred == 2    \* signature checks deferred by one function
MaxUses == 3        \* usage() calls between two resets of a block
MaxEntries == 2     \* entries held by the scopes of one chain

----------------------------------------------------------------------------
(* Generic helpers *)

Digits == <<"0", "1", "2", "3", "4", "5", "6", "7", "8", "9">>

RECURSIVE Reverse(_)
Reverse(s) == IF s = <<>> THEN <<>> ELSE Reverse(Tail(s)) \o <<Head(s)>>


----------------------------------------------------------------------------
(* Instructions.  An instruction is [k |-> kind, a |-> operands], the      *)
(* operands a sequence of strings (block names, types, function names).    *)

Insn(k, a) == [k |-> k, a |-> a]
Plain == Insn("SetScore", <<>>)
Branch(target) == Insn("Branch", <<target>>)
Return == Insn("Return", <<>>)
PushNewStackFrame(types) == Insn("PushNewStackFrame", types)
PopStack == Insn("PopStack", <<>>)
RunDeferredCallback == Insn("RunDeferredCallback", <<>>)
RevokeEventAdvancement(f) == Insn("RevokeEventAdvancement", <<f>>)

\* insn.terminator(): branches end a block (Return is rewritten to a Branch
\* before it is stored)
terminator(insn) == insn.k \in {"Branch", "Return"}

----------------------------------------------------------------------------
(* BasicBlock / SuperBlock *)

BasicBlock(name) ==
    [name |-> name, insns |-> <<>>, defined |-> FALSE, is_function |-> FALSE,
     force |-> FALSE, super |-> FALSE, clear |-> FALSE, is_entry |-> FALSE]

SuperBlock(name) ==
    [BasicBlock(name) EXCEPT !.defined = TRUE, !.super = TRUE]

\* (variant: the terminated-block check is dropped)
validate_ok_unchecked(b) == TRUE

\* BasicBlock.validate_insn: the terminated-block check, then Return -> Branch
validate_ok(b) ==
    ~(~b.force /\ b.insns # <<>> /\ terminator(b.insns[Len(b.insns)]))

\* (variant: a Return is stored as it is passed)
validate_insn_keeps_return(b, insn, exitname) ==
    [ok |-> validate_ok(b), insn |-> insn]

validate_insn(b, insn, exitname) ==
    IF ~validate_ok(b) THEN [ok |-> FALSE, insn |-> insn]
    ELSE IF insn.k = "Return" THEN [ok |-> TRUE, insn |-> Branch(exitname)]
    ELSE [ok |-> TRUE, insn |-> insn]

\* InstructionSeq.add on a block (no name binding): validate, append
add(b, insn, exitname) ==
    LET v == validate_insn(b, insn, exitname)
    IN  IF ~v.ok THEN [ok |-> FALSE, b |-> b]
        ELSE [ok |-> TRUE, b |-> [b EXCEPT !.insns = Append(@, v.insn)]]

\* BasicBlock.is_terminated: "error" when the block was never defined
is_terminated(b) ==
    IF ~b.defined THEN "error"
    ELSE IF b.is_function THEN "true"
    ELSE IF b.insns = <<>> THEN "false"
    ELSE IF terminator(b.insns[Len(b.insns)]) THEN "true" ELSE "false"

superclear(b) == [b EXCEPT !.clear = TRUE]

----------------------------------------------------------------------------
(* IRFunction *)

EntryIdx == 1
ExitIdx == 2

IRFunction(name) ==
    [name |-> name, params |-> <<>>, returns |-> <<>>,
     finished |-> FALSE, varsfinalized |-> FALSE,
     post_exit_insns |-> <<>>, future_expect_sig |-> <<>>,
     allblocks |-> << [SuperBlock("0entry") EXCEPT !.is_entry = TRUE],
                      SuperBlock("0ret") >>,
     locals |-> <<>>, slots |-> <<>>]

\* IRFunction.blocks: every block but the entry and exit SuperBlocks
blocks(f) == SubSeq(f.allblocks, 3, Len(f.allblocks))

is_defined(f) ==
    IF ~f.varsfinalized THEN Len(blocks(f)) > 0 ELSE Len(f.allblocks) > 0

BlockNames(f) == {f.allblocks[i].name : i \in 1..Len(f.allblocks)}

\* VariableHolder.uniq_name: hint, else hint0, hint1, ...
RECURSIVE uniq_from(_, _, _)
uniq_from(names, hint, i) ==
    IF (hint \o Digits[i + 1]) \notin names THEN hint \o Digits[i + 1]
    ELSE uniq_from(names, hint, i + 1)

uniq_name(names, hint) ==
    IF hint \notin names THEN hint ELSE uniq_from(names, hint, 0)

add_parameter(f, vtype, passtype) ==
    [f EXCEPT !.params = Append(@, <<vtype, passtype>>)]

add_return(f, vtype) == [f EXCEPT !.returns = Append(@, vtype)]

create_block(f, namehint) ==
    LET name == uniq_name(BlockNames(f), namehint)
    IN  [f EXCEPT !.allblocks =
            Append(@, [BasicBlock(name) EXCEPT !.defined = TRUE])]

get_or_create_block(f, name) ==
    IF name \in BlockNames(f) THEN f
    ELSE [f EXCEPT !.allblocks = Append(@, BasicBlock(name))]

\* IRFunction.expect_signature on a finished function
signature_matches(f, other) ==
    f.params = other.params /\ f.returns = other.returns

\* IRFunction.expect_signature: deferred while the function is unfinished
expect_signature(f, other) ==
    IF ~f.finished
    THEN [ok |-> TRUE, f |-> [f EXCEPT !.future_expect_sig = Append(@, other)]]
    ELSE [ok |-> signature_matches(f, other), f |-> f]

\* (variant: the deferred signature checks are not replayed)
end_unchecked(f) ==
    IF ~is_defined(f) \/ f.finished
       \/ \E i \in 1..Len(blocks(f)) : ~blocks(f)[i].defined
    THEN [ok |-> FALSE, f |-> f]
    ELSE [ok |-> TRUE, f |-> [f EXCEPT !.finished = TRUE]]

\* IRFunction.end
end(f) ==
    IF ~is_defined(f) THEN [ok |-> FALSE, f |-> f]
    ELSE IF f.finished THEN [ok |-> FALSE, f |-> f]
    ELSE IF \E i \in 1..Len(blocks(f)) : ~blocks(f)[i].defined
         THEN [ok |-> FALSE, f |-> f]
    ELSE LET g == [f EXCEPT !.finished = TRUE]
         IN  [ok |-> \A i \in 1..Len(f.future_expect_sig) :
                        signature_matches(g, f.future_expect_sig[i]),
              f |-> g]

\* sorted(..., key=lambda v: v.offset): a stable insertion sort
RECURSIVE insert_sorted(_, _)
insert_sorted(s, v) ==
    IF s = <<>> THEN <<v>>
    ELSE IF v.offset < Head(s).offset THEN <<v>> \o s
    ELSE <<Head(s)>> \o insert_sorted(Tail(s), v)

RECURSIVE sorted_by_offset(_)
sorted_by_offset(s) ==
    IF s = <<>> THEN <<>>
    ELSE insert_sorted(sorted_by_offset(SubSeq(s, 1, Len(s) - 1)), s[Len(s)])

\* (variant: the collision assertion is dropped)
stack_layout_ok_no_collision(vs) ==
    vs = <<>> \/ ( /\ vs[1].offset = 0
                   /\ vs[Len(vs)].offset = Len(vs) - 1 )

\* the three assertions of add_entry_exit on the sorted stack locals
stack_layout_ok(vs) ==
    vs = <<>> \/ ( /\ vs[1].offset = 0
                   /\ vs[Len(vs)].offset = Len(vs) - 1
                   /\ Cardinality({vs[i].offset : i \in 1..Len(vs)}) = Len(vs) )

\* block i of f receives insn through InstructionSeq.add
add_to(f, i, insn) ==
    LET r == add(f.allblocks[i], insn, f.allblocks[ExitIdx].name)
    IN  [ok |-> r.ok, f |-> [f EXCEPT !.allblocks[i] = r.b]]

\* a sequence of adds, each [i |-> block, insn |-> instruction], stopping at
\* the first that fails
RECURSIVE add_all(_, _)
add_all_rest(r, steps) == IF ~r.ok THEN r ELSE add_all(r.f, steps)

add_all(f, steps) ==
    IF steps = <<>> THEN [ok |-> TRUE, f |-> f]
    ELSE add_all_rest(add_to(f, Head(steps).i, Head(steps).insn), Tail(steps))

AddStep(i, insn) == [i |-> i, insn |-> insn]

\* IRFunction.add_entry_exit: the layout assertions, then push to entry, pop
\* to exit, the post-exit instructions to exit, the branch to entry
entry_exit_steps(f, vs) ==
    (IF vs = <<>> THEN <<>>
     ELSE << AddStep(EntryIdx, PushNewStackFrame(
                        Reverse([i \in 1..Len(vs) |-> vs[i].type]))),
             AddStep(ExitIdx, PopStack) >>)
    \o [k \in 1..Len(f.post_exit_insns) |->
            AddStep(ExitIdx, f.post_exit_insns[k])]
    \o << AddStep(EntryIdx, Branch(blocks(f)[1].name)) >>

add_entry_exit_sorted(f, vs) ==
    IF ~stack_layout_ok(vs)
    THEN [ok |-> FALSE, f |-> f, stage |-> "layout", vars |-> vs]
    ELSE add_all(f, entry_exit_steps(f, vs)) @@ [stage |-> "insert", vars |-> vs]

add_entry_exit(f) == add_entry_exit_sorted(f, sorted_by_offset(f.locals))

\* The parameter and return variables of the function's scope are f.slots,
\* in scope order, each [kind, type, proxy].

\* a variable no stack slot was given to yet
NoProxy == [set |-> FALSE, offset |-> 0, frame |-> 0]

\* the parameter or return instruction of the front end stores its variable
\* in the function's scope
declare_variable(f, kind, vtype) ==
    [f EXCEPT !.slots = Append(@, [kind |-> kind, type |-> vtype, proxy |-> NoProxy])]

LocalStackVariable(offset) == [set |-> TRUE, offset |-> offset, frame |-> 0]

\* Variable.realign_frame: the slot is addressed n frames further down
realign_frame(v, n) == [v EXCEPT !.frame = @ + n]

\* the positions in the scope of the variables of one kind, in scope order
of_kind(vs, kind) ==
    SelectSeq([i \in 1..Len(vs) |-> i], LAMBDA i : vs[i].kind = kind)

\* (variant: offsets follow the scope order, whatever the kind)
slot_order_of_scope(vs) == [i \in 1..Len(vs) |-> i]

\* the order in which configure_parameters hands out offsets: the parameters
\* as the scope lists them, then the collected return variables
slot_order(vs) == of_kind(vs, "ParameterVariable") \o of_kind(vs, "ReturnVariable")

proxy_at(offset, hasownstackframe) ==
    IF hasownstackframe THEN realign_frame(LocalStackVariable(offset), 1)
    ELSE LocalStackVariable(offset)

set_proxies(vs, order, hasownstackframe) ==
    [i \in 1..Len(vs) |->
        [vs[i] EXCEPT !.proxy =
            proxy_at((CHOOSE k \in 1..Len(order) : order[k] = i) - 1,
                     hasownstackframe)]]

\* IRFunction.configure_parameters
configure_parameters(f, hasownstackframe) ==
    [f EXCEPT !.slots = set_proxies(@, slot_order(@), hasownstackframe)]

\* IRFunction.is_closed: all(b.is_terminated() for b in self.blocks), which
\* stops at the first block that is not terminated
RECURSIVE all_terminated(_)
all_terminated_rest(t, bs) == IF t = "true" THEN all_terminated(bs) ELSE t

all_terminated(bs) ==
    IF bs = <<>> THEN "true"
    ELSE all_terminated_rest(is_terminated(Head(bs)), Tail(bs))

is_closed(f) == all_terminated(blocks(f))

\* the dead-exit fold of variables_finalized
\* (variant: the exit keeps its instructions)
fold_exit_kept(r) == r

fold_exit_clear(r) ==
    IF ~r.ok THEN r
    ELSE [ok |-> TRUE, f |-> [r.f EXCEPT !.allblocks[ExitIdx].insns = <<>>]]

\* (variant: the exit's instructions are dropped, not moved)
fold_exit_dropped(f) ==
    [ok |-> TRUE, f |-> [f EXCEPT !.allblocks[EntryIdx].force = TRUE,
                                  !.allblocks[ExitIdx].insns = <<>>]]

fold_exit(f) ==
    fold_exit_clear(
        add_all([f EXCEPT !.allblocks[EntryIdx].force = TRUE],
                [k \in 1..Len(f.allblocks[ExitIdx].insns) |->
                    AddStep(EntryIdx, f.allblocks[ExitIdx].insns[k])]))

\* IRFunction.variables_finalized, from its last statement back to its first
vf_superclear(d) ==
    IF ~d.ok THEN [ok |-> FALSE, f |-> d.f, stage |-> "fold"]
    ELSE [ok |-> TRUE, stage |-> "done",
          f |-> [d.f EXCEPT !.allblocks[EntryIdx] = superclear(@),
                            !.allblocks[ExitIdx] = superclear(@),
                            !.varsfinalized = TRUE]]

vf_fold(c, closed) ==
    IF closed = "error" THEN [ok |-> FALSE, f |-> c, stage |-> "closed"]
    ELSE IF closed = "true" THEN vf_superclear(fold_exit(c))
    ELSE vf_superclear([ok |-> TRUE, f |-> c])

vf_is_closed(c) == vf_fold(c, is_closed(c))

vf_configure(e) ==
    IF ~e.ok THEN [ok |-> FALSE, f |-> e.f, stage |-> e.stage]
    ELSE vf_is_closed(configure_parameters(e.f, e.vars # <<>>))

variables_finalized(f) ==
    IF ~is_defined(f) \/ f.varsfinalized
    THEN [ok |-> FALSE, f |-> f, stage |-> "state"]
    ELSE vf_configure(add_entry_exit(f))

\* IRFunction.add_advancement_revoke (reached from EventHandler.activate)
add_advancement_revoke(f) == add_to(f, EntryIdx, RevokeEventAdvancement(f.name))

\* RunCallbackOnExit.activate
run_callback_on_exit(f) ==
    [f EXCEPT !.post_exit_insns = Append(@, RunDeferredCallback)]

----------------------------------------------------------------------------
(* Objects.  Every function, extern stub and entity is an object of the    *)
(* heap objs, named by an id; scopes and instruction operands hold ids.    *)

FuncId(u, name) == name \o "@" \o Digits[u + 1]
ExternId(u, name) == "extern " \o name \o "@" \o Digits[u + 1]
EntityId(u, name) == "entity " \o name \o "@" \o Digits[u + 1]

\* an argument as Python passes it: None, a list, or some other object
PyNone == [ty |-> "none", v |-> <<>>]
PyList(s) == [ty |-> "list", v |-> s]
PyObject(ty) == [ty |-> ty, v |-> <<>>]

\* list(x or []): None and the empty list give [], a list gives itself, an
\* object that is not iterable raises TypeError
list_or_empty(x) ==
    IF x.ty = "none" THEN [ok |-> TRUE, v |-> <<>>]
    ELSE IF x.ty = "list" THEN [ok |-> TRUE, v |-> x.v]
    ELSE [ok |-> FALSE, v |-> <<>>]

\* ExternFunction.__init__(global_name, params=None, returns=None)
extern_init(gname, p, r) ==
    [ok |-> p.ok /\ r.ok /\ \A i \in 1..Len(p.v) : p.v[i][2] \in {"byval", "byref"},
     obj |-> [kind |-> "extern", gname |-> gname, params |-> p.v, returns |-> r.v]]

ExternFunction(gname, params, returns) ==
    extern_init(gname, list_or_empty(params), list_or_empty(returns))

\* an IRFunction of unit u as a heap object
FunctionObject(name, u) == IRFunction(name) @@ [kind |-> "func", parent |-> u]

EntityObject == [kind |-> "entity"]

\* isinstance(var, VisibleFunction)
is_visible_function(o) == o.kind \in {"func", "extern"}

\* VisibleFunction.finished: an extern stub always counts as finished
finished(o) == IF o.kind = "extern" THEN TRUE ELSE o.finished

\* IRFunction.global_name asserts the function is defined; a stub's
\* global_name always fails
global_name(o) ==
    IF o.kind = "func" /\ is_defined(o) THEN [ok |-> TRUE, v |-> o.name]
    ELSE [ok |-> FALSE, v |-> ""]

\* BasicBlock.global_name / SuperBlock.global_name
block_global_name(o, b) ==
    IF b.super /\ b.is_entry THEN o.name ELSE o.name \o "/" \o b.name

----------------------------------------------------------------------------
(* Scope: an ordered mapping name -> id, a sequence of [name, id] *)

scope_names(scope) == {scope[i].name : i \in 1..Len(scope)}

scope_get(scope, name) ==
    scope[CHOOSE i \in 1..Len(scope) : scope[i].name = name].id

\* Scope.__setitem__: a new name goes last, a known name keeps its place
scope_set(scope, name, id) ==
    IF name \in scope_names(scope)
    THEN [i \in 1..Len(scope) |->
            IF scope[i].name = name THEN [name |-> name, id |-> id] ELSE scope[i]]
    ELSE Append(scope, [name |-> name, id |-> id])

\* VariableHolder.store: asserts the name is not defined locally
store(scope, name, id) ==
    IF name \in scope_names(scope) THEN [ok |-> FALSE, scope |-> scope]
    ELSE [ok |-> TRUE, scope |-> scope_set(scope, name, id)]

\* VariableHolder.generate_name: store under a unique name
generate_name(scope, namehint, id) ==
    scope_set(scope, uniq_name(scope_names(scope), namehint), id)

----------------------------------------------------------------------------
(* Instructions with function operands *)

Invoke(id) == Insn("Invoke", <<id>>)
SetupInsn(id) == Insn("SetupInsn", <<id>>)

\* InstructionSeq.apply_mapping(ExternFunction, mapping) on one instruction:
\* every operand that is a key of mapping is replaced
map_insn(insn, mapping) ==
    [insn EXCEPT !.a = [k \in 1..Len(insn.a) |->
        IF insn.a[k] \in DOMAIN mapping THEN mapping[insn.a[k]] ELSE insn.a[k]]]

apply_mapping(insns, mapping) ==
    [k \in 1..Len(insns) |-> map_insn(insns[k], mapping)]

\* apply_mapping on the blocks at the positions idxs of function object o
map_blocks(o, idxs, mapping) ==
    [o EXCEPT !.allblocks = [i \in 1..Len(o.allblocks) |->
        IF i \in idxs
        THEN [o.allblocks[i] EXCEPT !.insns = apply_mapping(@, mapping)]
        ELSE o.allblocks[i]]]

----------------------------------------------------------------------------
(* TopLevel *)

\* TopLevel.__init__ of unit u, and the entities it stores
TopLevel(u) ==
    [scope |-> << [name |-> "pos_util", id |-> EntityId(u, "pos_util")],
                  [name |-> "_global_entity", id |-> EntityId(u, "_global_entity")] >>,
     preamble |-> <<>>, finished |-> FALSE, pragmas |-> <<>>]

TopLevelObjects(u) ==
    (EntityId(u, "pos_util") :> EntityObject)
        @@ (EntityId(u, "_global_entity") :> EntityObject)

\* the ids of a scope's visible functions, in scope order
RECURSIVE visible_functions(_, _)
visible_functions(heap, scope) ==
    IF scope = <<>> THEN <<>>
    ELSE (IF is_visible_function(heap[Head(scope).id]) THEN <<Head(scope)>> ELSE <<>>)
            \o visible_functions(heap, Tail(scope))

\* (variant: functions are not asked whether they are finished)
top_end_unchecked(heap, top) ==
    IF top.finished THEN [ok |-> FALSE, top |-> top]
    ELSE [ok |-> TRUE, top |-> [top EXCEPT !.finished = TRUE]]

\* TopLevel.end
top_end(heap, top) ==
    IF top.finished THEN [ok |-> FALSE, top |-> top]
    ELSE IF \E i \in 1..Len(top.scope) :
               /\ is_visible_function(heap[top.scope[i].id])
               /\ ~finished(heap[top.scope[i].id])
         THEN [ok |-> FALSE, top |-> top]
    ELSE [ok |-> TRUE, top |-> [top EXCEPT !.finished = TRUE]]

\* what the writer receives: one event per call
Event(ev, names) == [ev |-> ev, names |-> names]

\* Preamble.apply: SetupInsn.apply registers its function with the writer
RECURSIVE preamble_apply(_)
preamble_apply(insns) ==
    IF insns = <<>> THEN <<>>
    ELSE (IF Head(insns).k = "SetupInsn"
          THEN <<Event("write_setup_function", Head(insns).a)>> ELSE <<>>)
            \o preamble_apply(Tail(insns))

\* (variant: the function's own name is not appended after the blocks)
get_func_table_blocks_only(o) ==
    IF o.kind = "extern" THEN <<>>
    ELSE [i \in 1..Len(o.allblocks) |-> block_global_name(o, o.allblocks[i])]

\* get_func_table: the global names of all blocks, then the function's own
\* name; a stub contributes nothing
get_func_table(o) ==
    IF o.kind = "extern" THEN <<>>
    ELSE [i \in 1..Len(o.allblocks) |-> block_global_name(o, o.allblocks[i])]
            \o <<o.name>>

\* the table of TopLevel.writeout over the visible functions fs
RECURSIVE func_tables(_, _)
func_tables(heap, fs) ==
    IF fs = <<>> THEN <<>>
    ELSE get_func_table(heap[Head(fs).id]) \o func_tables(heap, Tail(fs))

\* IRFunction.writeout: one write_function per block, entry and exit included
function_writeout(o) ==
    [i \in 1..Len(o.allblocks) |->
        Event("write_function", <<block_global_name(o, o.allblocks[i])>>)]

\* the loop of TopLevel.writeout over the functions; a stub cannot be written
RECURSIVE write_functions(_, _, _)
write_functions(heap, fs, events) ==
    IF fs = <<>> THEN [ok |-> TRUE, events |-> events]
    ELSE IF heap[Head(fs).id].kind = "extern" \/ ~heap[Head(fs).id].finished
         THEN [ok |-> FALSE, events |-> events]
    ELSE write_functions(heap, Tail(fs),
                         events \o function_writeout(heap[Head(fs).id]))

\* TopLevel.writeout from the function table on
writeout_functions(heap, fs, events) ==
    IF \E i \in 1..Len(fs) : heap[fs[i].id].kind = "func" /\ ~is_defined(heap[fs[i].id])
    THEN [ok |-> FALSE, events |-> events]
    ELSE write_functions(heap, fs,
            events \o << Event("write_func_table", func_tables(heap, fs)),
                         Event("write_objective", <<"success_tracker">>) >>)

\* TopLevel.writeout
writeout(heap, top) ==
    IF ~top.finished THEN [ok |-> FALSE, events |-> <<>>]
    ELSE writeout_functions(heap, visible_functions(heap, top.scope),
                            preamble_apply(top.preamble))

\* names the front end uses for functions; those that start with "__"
FuncNames == {"f", "__h"}
starts_with_dunder(name) == name \in {"__h"}

\* TopLevel.include_from: one scope entry of the other unit
include_store(heap, top, u, name, e) ==
    IF ~e.ok THEN [ok |-> FALSE, heap |-> heap, top |-> top]
    ELSE [ok |-> TRUE,
          heap |-> (ExternId(u, name) :> e.obj) @@ heap,
          top |-> [top EXCEPT !.scope = scope_set(@, name, ExternId(u, name))]]

include_stub(heap, top, u, name, g) ==
    IF ~g.ok THEN [ok |-> FALSE, heap |-> heap, top |-> top]
    ELSE include_store(heap, top, u, name,
                       ExternFunction(g.v, PyObject("TopLevel"), PyNone))

RECURSIVE include_entries(_, _, _, _)
include_next(r, u, entries) ==
    IF ~r.ok THEN r ELSE include_entries(r.heap, r.top, u, entries)

include_entries(heap, top, u, entries) ==
    IF entries = <<>> THEN [ok |-> TRUE, heap |-> heap, top |-> top]
    ELSE IF is_visible_function(heap[Head(entries).id])
            /\ ~starts_with_dunder(Head(entries).name)
         THEN include_next(
                include_stub(heap, top, u, Head(entries).name,
                             global_name(heap[Head(entries).id])),
                u, Tail(entries))
    ELSE include_entries(heap, top, u, Tail(entries))

include_from(heap, top, u, other) == include_entries(heap, top, u, other.scope)

\* the function objects of a scope
scope_functions(heap, scope) ==
    {scope[i].id : i \in {j \in 1..Len(scope) : heap[scope[j].id].kind = "func"}}

\* TopLevel.define_function when the name holds an extern stub: a real
\* function takes the name, the stub's signature is deferred to its end(),
\* and every block of the unit's functions is re-pointed at it
replace_extern(heap, top, u, name, stub) ==
    [heap |-> [id \in DOMAIN heap \cup {FuncId(u, name)} |->
                 IF id = FuncId(u, name)
                 THEN [FunctionObject(name, u) EXCEPT !.future_expect_sig =
                          <<[params |-> heap[stub].params,
                             returns |-> heap[stub].returns]>>]
                 ELSE IF id \in scope_functions(heap, top.scope)
                 THEN map_blocks(heap[id], 1..Len(heap[id].allblocks),
                                 stub :> FuncId(u, name))
                 ELSE heap[id]],
     top |-> [top EXCEPT !.scope = scope_set(@, name, FuncId(u, name))]]

\* TopLevel.define_function
define_function(heap, top, u, name) ==
    IF name \notin scope_names(top.scope)
    THEN [heap |-> (FuncId(u, name) :> FunctionObject(name, u)) @@ heap,
          top |-> [top EXCEPT !.scope = scope_set(@, name, FuncId(u, name))]]
    ELSE IF heap[scope_get(top.scope, name)].kind = "extern"
    THEN replace_extern(heap, top, u, name, scope_get(top.scope, name))
    ELSE [heap |-> heap, top |-> top]

----------------------------------------------------------------------------
(* TopLevel.linker.  The state of one run is the record                    *)
(*   [ok, reason, heap, out, externs, all_blocks, mapping]                 *)
(* externs: a sequence of [name, ids], in the order names are first seen   *)
(* all_blocks: a sequence of [fid, idx]; mapping: a sequence of [from, to] *)

OutUnit == 0

link_fail(L, reason) == [L EXCEPT !.ok = FALSE, !.reason = reason]

\* externs[name].append(var) on a defaultdict(list)
externs_append(externs, name, id) ==
    IF \E i \in 1..Len(externs) : externs[i].name = name
    THEN [i \in 1..Len(externs) |->
            IF externs[i].name = name
            THEN [externs[i] EXCEPT !.ids = Append(@, id)] ELSE externs[i]]
    ELSE Append(externs, [name |-> name, ids |-> <<id>>])

\* the positions of var.blocks within allblocks
block_refs(o, fid) ==
    [i \in 1..Len(blocks(o)) |-> [fid |-> fid, idx |-> i + ExitIdx]]

\* a genuine function: out.store, re-parent, collect its blocks
link_function(L, e, st) ==
    IF ~st.ok THEN link_fail(L, "duplicate")
    ELSE [L EXCEPT !.out.scope = st.scope,
                   !.heap[e.id].parent = OutUnit,
                   !.all_blocks = @ \o block_refs(L.heap[e.id], e.id)]

\* one entry of top.scope
link_var(L, e) ==
    IF L.heap[e.id].kind = "extern"
    THEN [L EXCEPT !.externs = externs_append(@, e.name, e.id)]
    ELSE IF L.heap[e.id].kind = "func"
    THEN link_function(L, e, store(L.out.scope, e.name, e.id))
    ELSE [L EXCEPT !.out.scope = generate_name(@, e.name, e.id)]

RECURSIVE link_vars(_, _)
link_vars(L, entries) ==
    IF ~L.ok \/ entries = <<>> THEN L
    ELSE link_vars(link_var(L, Head(entries)), Tail(entries))

\* one of the linked units
link_top(L, top) ==
    IF ~top.finished THEN link_fail(L, "unfinished")
    ELSE link_vars([L EXCEPT !.out.preamble = @ \o top.preamble,
                             !.out.pragmas = @ \o top.pragmas],
                   top.scope)

RECURSIVE link_tops(_, _)
link_tops(L, ts) ==
    IF ~L.ok \/ ts = <<>> THEN L
    ELSE link_tops(link_top(L, Head(ts)), Tail(ts))

\* (variant: only the parameter lists are compared)
signature_agrees_params_only(o, other) == o.params = other.params

\* the comparison of ExternFunction.expect_signature against a finished other
signature_agrees(o, other) ==
    o.params = other.params /\ o.returns = other.returns

\* extern.expect_signature(replacement); an unfinished replacement keeps the
\* stub's signature for its own end()
extern_expect_signature(L, ext, rep) ==
    IF ~finished(L.heap[rep])
    THEN [L EXCEPT !.heap[rep].future_expect_sig =
            Append(@, [params |-> L.heap[ext].params,
                       returns |-> L.heap[ext].returns])]
    ELSE IF signature_agrees(L.heap[ext], L.heap[rep]) THEN L
    ELSE link_fail(L, "signature")

\* if replacement != extern: extern_mapping[extern] = replacement
extern_map(L, ext, rep) ==
    IF ~L.ok \/ rep = ext THEN L
    ELSE [L EXCEPT !.mapping = Append(@, [from |-> ext, to |-> rep])]

RECURSIVE link_externlist(_, _, _)
link_externlist(L, ids, rep) ==
    IF ~L.ok \/ ids = <<>> THEN L
    ELSE link_externlist(
            extern_map(extern_expect_signature(L, Head(ids), rep), Head(ids), rep),
            Tail(ids), rep)

\* if not concrete: out.store(name, new_extern)
link_put_back(L, x, concrete) ==
    IF ~L.ok \/ concrete THEN L
    ELSE [L EXCEPT !.out.scope = scope_set(@, x.name, x.ids[1])]

\* one name of externs; lookup_func asserts the name holds a function
link_extern(L, x, concrete) ==
    IF concrete /\ ~is_visible_function(L.heap[scope_get(L.out.scope, x.name)])
    THEN link_fail(L, "lookup")
    ELSE link_put_back(
            link_externlist(L, x.ids,
                IF concrete THEN scope_get(L.out.scope, x.name) ELSE x.ids[1]),
            x, concrete)

RECURSIVE link_externs(_, _)
link_externs(L, xs) ==
    IF ~L.ok \/ xs = <<>> THEN L
    ELSE link_externs(
            link_extern(L, Head(xs), Head(xs).name \in scope_names(L.out.scope)),
            Tail(xs))

\* extern_mapping as a function
mapping_of(m) ==
    [id \in {m[i].from : i \in 1..Len(m)} |->
        m[CHOOSE i \in 1..Len(m) : m[i].from = id].to]

\* the sweep over all_blocks; nothing is swept when the mapping is empty
sweep_heap(heap, refs, mapping) ==
    [id \in DOMAIN heap |->
        IF \E i \in 1..Len(refs) : refs[i].fid = id
        THEN map_blocks(heap[id],
                        {refs[i].idx : i \in {j \in 1..Len(refs) : refs[j].fid = id}},
                        mapping)
        ELSE heap[id]]

\* (variant: no block is swept)
link_sweep_skipped(L) == L

link_sweep(L) ==
    IF ~L.ok \/ L.mapping = <<>> THEN L
    ELSE [L EXCEPT !.heap = sweep_heap(L.heap, L.all_blocks, mapping_of(L.mapping))]

\* out.end()
link_end_result(L, r) ==
    IF ~r.ok THEN link_fail(L, "end") ELSE [L EXCEPT !.out = r.top]

link_end(L) == IF ~L.ok THEN L ELSE link_end_result(L, top_end(L.heap, L.out))

link_start(heap) ==
    [ok |-> TRUE, reason |-> "", heap |-> TopLevelObjects(OutUnit) @@ heap,
     out |-> TopLevel(OutUnit), externs |-> <<>>, all_blocks |-> <<>>,
     mapping |-> <<>>]

link_pass1(heap, ts) == link_tops(link_start(heap), ts)

link_pass2(L) == link_externs(L, L.externs)

\* TopLevel.linker(*tops): a single unit is returned as it is
linker(heap, ts) ==
    IF Len(ts) = 1
    THEN [ok |-> TRUE, reason |-> "", heap |-> heap, out |-> ts[1],
          externs |-> <<>>, all_blocks |-> <<>>, mapping |-> <<>>]
    ELSE link_end(link_sweep(link_pass2(link_pass1(heap, ts))))

----------------------------------------------------------------------------
(* Inlining.  The target of inline_into is [f, vars, preamble]: a function, *)
(* the variables of its scope as [name, type], and its preamble.  A        *)
(* parameter of the source is named by its position; the instructions that *)
(* declare parameters are not inline-copyable, so nothing of the source    *)
(* preamble is replayed.  The state of one run is the record               *)
(*   [ok, other, scope_mapping, block_mapping, entry_insns]                *)

ParamName(i) == "p" \o Digits[i + 1]
ReturnName(i) == "r" \o Digits[i + 1]

DefineVariable(type) == Insn("DefineVariable", <<type>>)
SetScore(dst, src) == Insn("SetScore", <<dst, src>>)

\* actual arguments: a literal, a variable of the caller, or None
IntArg == [kind |-> "int", v |-> "1", type |-> ""]
FloatArg == [kind |-> "float", v |-> "1.5", type |-> ""]
VarArg(name, type) == [kind |-> "var", v |-> name, type |-> type]
NoneArg == [kind |-> "none", v |-> "None", type |-> ""]

VarNames(c) == {c.vars[i].name : i \in 1..Len(c.vars)}

\* the names of the target's scope
holder_names(c) == BlockNames(c.f) \cup VarNames(c)

\* (variant: the block takes the name hint as it is)
holder_create_block_as_named(c, namehint) ==
    [c EXCEPT !.f.allblocks =
        Append(@, [BasicBlock(namehint) EXCEPT !.defined = TRUE])]

\* other.create_block(namehint): unique in the scope, defined
holder_create_block(c, namehint) ==
    [c EXCEPT !.f.allblocks =
        Append(@, [BasicBlock(uniq_name(holder_names(c), namehint))
                     EXCEPT !.defined = TRUE])]

\* other.create_var(namehint, type): DefineVariable in the preamble, stored
\* under a unique name
holder_create_var(c, namehint, type) ==
    [c EXCEPT !.preamble = Append(@, DefineVariable(type)),
              !.vars = Append(@, [name |-> uniq_name(holder_names(c), namehint),
                                  type |-> type])]

\* VisibleFunction.validate_args
arg_ok(p, a) ==
    IF a.kind = "int" THEN p[1] = "i32"
    ELSE IF a.kind = "float" THEN p[1] = "q10"
    ELSE a.kind = "var" /\ a.type = p[1]

args_ok(params, args) ==
    IF params # <<>>
    THEN /\ args.ty = "list"
         /\ Len(args.v) = Len(params)
         /\ \A i \in 1..Len(params) : arg_ok(params[i], args.v[i])
    ELSE args.ty = "none"

retvars_ok(returns, retvars) ==
    IF returns # <<>>
    THEN /\ retvars.ty = "list"
         /\ Len(retvars.v) = Len(returns)
         /\ \A i \in 1..Len(returns) :
               \/ retvars.v[i].kind = "none"
               \/ retvars.v[i].kind = "var" /\ retvars.v[i].type = returns[i]
    ELSE retvars.ty = "none"

validate_args(f, args, retvars) ==
    f.finished /\ args_ok(f.params, args) /\ retvars_ok(f.returns, retvars)

inline_fail(S) == [S EXCEPT !.ok = FALSE]

inline_map(S, from, to) ==
    [S EXCEPT !.scope_mapping = Append(@, [from |-> from, to |-> to])]

\* a block of the source: a new block of the same name in the target, with
\* the flags of the source
inline_block_made(S, c, b, i) ==
    [S EXCEPT !.other =
                [c EXCEPT !.f.allblocks[Len(c.f.allblocks)].is_function = b.is_function,
                          !.f.allblocks[Len(c.f.allblocks)].defined = b.defined],
              !.scope_mapping =
                Append(@, [from |-> b.name,
                           to |-> c.f.allblocks[Len(c.f.allblocks)].name]),
              !.block_mapping =
                Append(@, [from |-> i, to |-> Len(c.f.allblocks)])]

inline_block(S, src, i) ==
    inline_block_made(S, holder_create_block(S.other, src.allblocks[i].name),
                      src.allblocks[i], i)

RECURSIVE inline_blocks(_, _, _)
inline_blocks(S, src, idxs) ==
    IF ~S.ok \/ idxs = <<>> THEN S
    ELSE inline_blocks(inline_block(S, src, Head(idxs)), src, Tail(idxs))

\* (variant: a by-value variable argument is bound without a copy)
bind_byval_no_copy(S, pname, arg, c) == inline_map(S, pname, arg.v)

\* a by-value parameter given a variable: c is the target after
\* create_var(name + '_copy'); the copy goes to entry_insns
bind_byval(S, pname, arg, c) ==
    [S EXCEPT !.other = c,
              !.entry_insns = Append(@, SetScore(c.vars[Len(c.vars)].name, arg.v)),
              !.scope_mapping =
                Append(@, [from |-> pname, to |-> c.vars[Len(c.vars)].name])]

\* one ParameterVariable of the source scope and the next argument
bind_parameter(S, pname, passtype, arg) ==
    IF arg.kind \in {"int", "float"}
    THEN IF passtype # "byval" THEN inline_fail(S)
         ELSE inline_map(S, pname, arg.v)
    ELSE IF passtype = "byval"
    THEN IF arg.v \notin holder_names(S.other) THEN inline_fail(S)
         ELSE bind_byval(S, pname, arg,
                         holder_create_var(S.other, arg.v \o "_copy", arg.type))
    ELSE inline_map(S, pname, arg.v)

RECURSIVE bind_parameters(_, _, _, _)
bind_parameters(S, params, args, i) ==
    IF ~S.ok \/ i > Len(params) THEN S
    ELSE bind_parameters(bind_parameter(S, ParamName(i), params[i][2], args[i]),
                         params, args, i + 1)

\* the ReturnVariables of the source scope and the return destinations
RECURSIVE bind_returns(_, _, _)
bind_returns(S, retvars, i) ==
    IF ~S.ok \/ i > Len(retvars) THEN S
    ELSE bind_returns(inline_map(S, ReturnName(i), retvars[i].v), retvars, i + 1)

\* _inline_seq of one block: every instruction copied with the mapping
replay_steps(b, to, mapping) ==
    [k \in 1..Len(b.insns) |-> AddStep(to, map_insn(b.insns[k], mapping))]

RECURSIVE replay_all(_, _, _)
replay_all(src, block_mapping, mapping) ==
    IF block_mapping = <<>> THEN <<>>
    ELSE replay_steps(src.allblocks[Head(block_mapping).from],
                      Head(block_mapping).to, mapping)
            \o replay_all(src, Tail(block_mapping), mapping)

\* block_mapping[block]
mapped_block(block_mapping, i) ==
    block_mapping[CHOOSE k \in 1..Len(block_mapping) : block_mapping[k].from = i].to

\* the copies go to the block mapped from the first user block, then every
\* block is replayed
inline_steps(S, src) ==
    [i \in 1..Len(S.entry_insns) |->
        AddStep(mapped_block(S.block_mapping, ExitIdx + 1), S.entry_insns[i])]
        \o replay_all(src, S.block_mapping, mapping_of(S.scope_mapping))

inline_result(S, r) ==
    [ok |-> r.ok, other |-> [S.other EXCEPT !.f = r.f],
     entry |-> mapped_block(S.block_mapping, ExitIdx + 1),
     exit |-> mapped_block(S.block_mapping, ExitIdx)]

inline_replay(S, src) ==
    IF ~S.ok THEN [ok |-> FALSE, other |-> S.other, entry |-> 0, exit |-> 0]
    ELSE inline_result(S, add_all(S.other.f, inline_steps(S, src)))

\* the loop over the source scope: entry and exit blocks, parameters and
\* returns, then the user blocks
inline_scope(S, src, args, retvars) ==
    inline_blocks(
        bind_returns(
            bind_parameters(inline_blocks(S, src, <<EntryIdx, ExitIdx>>),
                            src.params, args, 1),
            retvars, 1),
        src, [k \in 1..Len(blocks(src)) |-> k + ExitIdx])

\* IRFunction.inline_into
inline_into(src, other, args, retvars) ==
    IF ~validate_args(src, args, retvars) \/ src.varsfinalized \/ other.f.varsfinalized
    THEN [ok |-> FALSE, other |-> other, entry |-> 0, exit |-> 0]
    ELSE inline_replay(
            inline_scope([ok |-> TRUE, other |-> other, scope_mapping |-> <<>>,
                          block_mapping |-> <<>>, entry_insns |-> <<>>],
                         src, args.v, retvars.v),
            src)

----------------------------------------------------------------------------
(* ObjectFormat.  What pickle serializes of a unit is its object graph,    *)
(* kept here as the unit's finished flag and, per scope entry, the name,   *)
(* the kind, the signature and the number of blocks.  pickle.dumps writes  *)
(* the graph as a sequence of tokens and pickle.loads parses it back;      *)
(* zlib is a run-length coding of the tokens.                              *)

VERSION == "1.0.0"

entry_graph(name, o) ==
    [name |-> name, kind |-> o.kind,
     params |-> IF is_visible_function(o) THEN o.params ELSE <<>>,
     returns |-> IF is_visible_function(o) THEN o.returns ELSE <<>>,
     nblocks |-> IF o.kind = "func" THEN Len(o.allblocks) ELSE 0]

top_graph(heap, top) ==
    [cls |-> "TopLevel", finished |-> top.finished,
     scope |-> [i \in 1..Len(top.scope) |->
                  entry_graph(top.scope[i].name, heap[top.scope[i].id])]]

\* ObjectFormat.__init__, for the release whose format version is version
ObjectFormat(top, version) ==
    [cls |-> "ObjectFormat", version |-> version, top |-> top]

NumOf(str) == CHOOSE n \in 0..9 : Digits[n + 1] = str

RECURSIVE dump_params(_)
dump_params(ps) ==
    IF ps = <<>> THEN <<>> ELSE <<Head(ps)[1], Head(ps)[2]>> \o dump_params(Tail(ps))

dump_entry(e) ==
    <<e.name, e.kind, Digits[Len(e.params) + 1]>> \o dump_params(e.params)
        \o <<Digits[Len(e.returns) + 1]>> \o e.returns
        \o <<Digits[e.nblocks + 1]>>

RECURSIVE dump_entries(_)
dump_entries(es) ==
    IF es = <<>> THEN <<>> ELSE dump_entry(Head(es)) \o dump_entries(Tail(es))

pickle_dumps(obj) ==
    <<obj.cls, obj.version, obj.top.cls,
      IF obj.top.finished THEN "True" ELSE "False",
      Digits[Len(obj.top.scope) + 1]>> \o dump_entries(obj.top.scope)

\* the entry that starts at pos, with np parameters and nr returns
load_entry(t, pos, np, nr) ==
    [name |-> t[pos], kind |-> t[pos + 1],
     params |-> [i \in 1..np |-> <<t[pos + 1 + 2 * i], t[pos + 2 + 2 * i]>>],
     returns |-> [i \in 1..nr |-> t[pos + 3 + 2 * np + i]],
     nblocks |-> NumOf(t[pos + 4 + 2 * np + nr])]

load_entry_at(t, pos, np) == load_entry(t, pos, np, NumOf(t[pos + 3 + 2 * np]))

entry_length(t, pos, np) == 5 + 2 * np + NumOf(t[pos + 3 + 2 * np])

RECURSIVE load_entries(_, _, _)
load_entries(t, pos, n) ==
    IF n = 0 THEN <<>>
    ELSE <<load_entry_at(t, pos, NumOf(t[pos + 2]))>>
            \o load_entries(t, pos + entry_length(t, pos, NumOf(t[pos + 2])), n - 1)

pickle_loads(t) ==
    [cls |-> t[1], version |-> t[2],
     top |-> [cls |-> t[3], finished |-> (t[4] = "True"),
              scope |-> load_entries(t, 6, NumOf(t[5]))]]

\* zlib: runs of equal tokens as [tok, n]
rle_push(tok, runs) ==
    IF runs # <<>> /\ Head(runs).tok = tok
    THEN <<[tok |-> tok, n |-> Head(runs).n + 1]>> \o Tail(runs)
    ELSE <<[tok |-> tok, n |-> 1]>> \o runs

RECURSIVE zlib_compress(_)
zlib_compress(t) ==
    IF t = <<>> THEN <<>> ELSE rle_push(Head(t), zlib_compress(Tail(t)))

RECURSIVE zlib_decompress(_)
zlib_decompress(runs) ==
    IF runs = <<>> THEN <<>>
    ELSE [i \in 1..Head(runs).n |-> Head(runs).tok] \o zlib_decompress(Tail(runs))

\* ObjectFormat.save, by the release whose format version is version
save(top, version) == zlib_compress(pickle_dumps(ObjectFormat(top, version)))

\* ObjectFormat.load: the version assertion, then the object is returned
load_checked(obj) ==
    IF obj.version # VERSION THEN [ok |-> FALSE, v |-> [cls |-> "none"]]
    ELSE [ok |-> TRUE, v |-> obj]

load(data) == load_checked(pickle_loads(zlib_decompress(data)))

----------------------------------------------------------------------------
(* TemporaryVarGen: the pool of scratch cells of one write-out *)

TempName(n) == "temp_" \o Digits[n + 1]

\* (variant: a cell is minted whether or not a free one is at hand)
next_always_mints(p) ==
    [v |-> TempName(p.counter), minted |-> TRUE,
     p |-> [p EXCEPT !.counter = @ + 1,
                     !.in_use = @ \cup {TempName(p.counter)}]]

\* next(): pops the last free cell, or mints temp_<counter> and declares it
\* to the writer
next(p) ==
    IF p.temps = <<>>
    THEN [v |-> TempName(p.counter), minted |-> TRUE,
          p |-> [p EXCEPT !.counter = @ + 1,
                          !.in_use = @ \cup {TempName(p.counter)}]]
    ELSE [v |-> p.temps[Len(p.temps)], minted |-> FALSE,
          p |-> [p EXCEPT !.temps = SubSeq(@, 1, Len(@) - 1),
                          !.in_use = @ \cup {p.temps[Len(p.temps)]}]]

\* (variant: the cell is returned to the pool without the assertion)
free_unchecked(p, temp) ==
    [ok |-> TRUE,
     p |-> [p EXCEPT !.in_use = @ \ {temp}, !.temps = Append(@, temp)]]

\* free(temp): asserts the cell is in use
free(p, temp) ==
    IF temp \notin p.in_use THEN [ok |-> FALSE, p |-> p]
    ELSE [ok |-> TRUE,
          p |-> [p EXCEPT !.in_use = @ \ {temp}, !.temps = Append(@, temp)]]

\* finish(): asserts no cell is in use
finish(p) == p.in_use = {}

----------------------------------------------------------------------------
(* Scope with a parent.  A chain is a sequence of scopes, each             *)
(*   [map, inverse_dict, parent]                                           *)
(* map: the scope's own entries [name, id] in insertion order;             *)
(* inverse_dict: value -> name ("" when the value was never stored);       *)
(* parent: the position of the parent scope in the chain, 0 for none.      *)

ScopeNames == {"a", "b"}
ScopeValues == {"v", "w"}

\* Scope(parent)
Scope(parent) ==
    [map |-> <<>>, inverse_dict |-> [x \in ScopeValues |-> ""], parent |-> parent]

KeyError == [ok |-> FALSE, v |-> ""]

\* Scope.__getitem__ with __missing__: own entry, else the parent's
RECURSIVE getitem(_, _, _)
getitem(chain, i, key) ==
    IF key \in scope_names(chain[i].map)
    THEN [ok |-> TRUE, v |-> scope_get(chain[i].map, key)]
    ELSE IF chain[i].parent # 0 THEN getitem(chain, chain[i].parent, key)
    ELSE KeyError

\* Scope.__contains__
RECURSIVE contains(_, _, _)
contains(chain, i, key) ==
    IF key \in scope_names(chain[i].map) THEN TRUE
    ELSE IF chain[i].parent # 0 THEN contains(chain, chain[i].parent, key)
    ELSE FALSE

\* Scope.__setitem__: the own mapping and the own inverse_dict
setitem(chain, i, key, value) ==
    [chain EXCEPT ![i].map = scope_set(@, key, value),
                  ![i].inverse_dict = [@ EXCEPT ![value] = key]]

\* del scope[key] (OrderedDict.__delitem__): the own mapping only
delitem(chain, i, key) ==
    [chain EXCEPT ![i].map = SelectSeq(@, LAMBDA e : e.name # key)]

\* Scope.for_value
RECURSIVE for_value(_, _, _, _)
for_value(chain, i, value, look_parent) ==
    IF chain[i].inverse_dict[value] # ""
    THEN [ok |-> TRUE, v |-> chain[i].inverse_dict[value]]
    ELSE IF look_parent /\ chain[i].parent # 0
    THEN for_value(chain, chain[i].parent, value, TRUE)
    ELSE KeyError

\* Scope.contains_no_parent
contains_no_parent(chain, i, key) == key \in scope_names(chain[i].map)

\* (variant: the lookup falls through to the parent)
get_no_parent_with_parent(chain, i, key) == getitem(chain, i, key)

\* Scope.get_no_parent
get_no_parent(chain, i, key) ==
    IF contains_no_parent(chain, i, key) THEN getitem(chain, i, key)
    ELSE KeyError

----------------------------------------------------------------------------
(* Usage tracking of a SuperBlock: [use, clear, is_entry] *)

\* (variant: usage is counted before the block is cleared)
usage_unguarded(b) == [b EXCEPT !.use = @ + 1]

\* SuperBlock.usage over BasicBlock.usage
usage(b) == IF b.clear THEN [b EXCEPT !.use = @ + 1] ELSE b

\* SuperBlock.reset over BasicBlock.reset
reset(b) == IF b.clear THEN [b EXCEPT !.use = 0] ELSE b

\* SuperBlock.use_count over BasicBlock.use_count
use_count(b) ==
    IF b.clear THEN (IF b.is_entry THEN 1 + b.use ELSE b.use)
    ELSE 2

----------------------------------------------------------------------------
(* InstructionSeq.add with a name binding.  A holder is a function seen as  *)
(* [block, preamble, scope, is_extern]: one of its blocks, its Preamble,    *)
(* its scope and its extern flag.                                           *)

ExternInsn == Insn("extern", <<>>)

Holder ==
    [block |-> BasicBlock("b"), preamble |-> <<>>, scope |-> <<>>,
     is_extern |-> FALSE]

\* insn.preamble_safe
preamble_safe(insn) == insn.k \in {"extern", "DefineVariable"}

\* Preamble.validate_insn
preamble_validate_insn(insn) == [ok |-> preamble_safe(insn), insn |-> insn]

\* the instruction list of the sequence target ("block" or "preamble")
seq_insns(h, target) ==
    IF target = "preamble" THEN h.preamble ELSE h.block.insns

seq_validate(h, target, insn) ==
    IF target = "preamble" THEN preamble_validate_insn(insn)
    ELSE validate_insn(h.block, insn, "0ret")

seq_append(h, target, insn) ==
    IF target = "preamble" THEN [h EXCEPT !.preamble = Append(@, insn)]
    ELSE [h EXCEPT !.block.insns = Append(@, insn)]

\* insn.activate(seq): ExternInsn marks the holder and returns None (""), a
\* constructor returns the entity it constructs, any other returns None
activate(h, insn) ==
    IF insn.k = "extern" THEN [ret |-> "", h |-> [h EXCEPT !.is_extern = TRUE]]
    ELSE IF insn.k = "DefineVariable"
    THEN [ret |-> "variable" \o Digits[Len(h.block.insns) + Len(h.preamble) + 1],
          h |-> h]
    ELSE [ret |-> "", h |-> h]

\* add, from holder.store on
add_store(h, ret, name) ==
    [ok |-> store(h.scope, name, ret).ok,
     stage |-> IF store(h.scope, name, ret).ok THEN "" ELSE "store",
     h |-> [h EXCEPT !.scope = store(h.scope, name, ret).scope]]

\* add, from "if with_name" on: with_name is "False", "True" or a name, the
\* hint is namehint or, when that is "" (None), the instruction's name
add_bind(h, insn, ret, with_name, namehint) ==
    IF with_name = "False" THEN [ok |-> TRUE, stage |-> "", h |-> h]
    ELSE IF ret = "" THEN [ok |-> FALSE, stage |-> "activate", h |-> h]
    ELSE IF with_name # "True" THEN add_store(h, ret, with_name)
    ELSE add_store(h, ret,
                   uniq_name(scope_names(h.scope),
                             IF namehint # "" THEN namehint ELSE insn.k))

\* add, from the append on
add_activated(a, target, insn, with_name, namehint) ==
    add_bind(seq_append(a.h, target, insn), insn, a.ret, with_name, namehint)

\* InstructionSeq.add(insn, with_name, namehint)
add_named(h, target, insn, with_name, namehint) ==
    IF ~seq_validate(h, target, insn).ok
    THEN [ok |-> FALSE, stage |-> "validate", h |-> h]
    ELSE add_activated(activate(h, seq_validate(h, target, insn).insn), target,
                       seq_validate(h, target, insn).insn, with_name, namehint)

----------------------------------------------------------------------------
(* The life of one function: the front end's calls, in any order *)

VarTypes == {"i32", "q10"}
PassTypes == {"byval", "byref"}
ForwardNames == {"c"}   \* labels referenced before they are defined

\* the last call: op is "add", "end", "variables_finalized" or "other"; blk
\* is the block an add went to (the result of an add also holds insn, the
\* instruction passed), stage where variables_finalized stopped
Result(op, ok, blk) == [op |-> op, ok |-> ok, blk |-> blk, stage |-> ""]

FuncIdle ==
    /\ fn = IRFunction("f")
    /\ fres = Result("init", TRUE, 0)

TopIdle ==
    /\ objs = <<>>
    /\ tops = <<>>
    /\ tres = [op |-> "init", ok |-> TRUE, u |-> 0, v |-> 0]
    /\ written = <<>>
    /\ linked = [status |-> "none"]

InlineIdle ==
    /\ caller = <<>>
    /\ ires = [op |-> "none"]

ObjectIdle ==
    /\ blob = [status |-> "none"]
    /\ loaded = [op |-> "none"]

PoolIdle ==
    /\ pool = [temps |-> <<>>, in_use |-> {}, counter |-> 0]
    /\ pres = [op |-> "init", ok |-> TRUE, v |-> ""]

ScopeIdle ==
    /\ scopes = <<>>
    /\ sres = [op |-> "init", ok |-> TRUE, v |-> ""]

UsageIdle ==
    /\ sblk = <<>>
    /\ ures = [op |-> "init", v |-> 0]

SeqIdle ==
    /\ seq = <<>>
    /\ qres = [op |-> "init", ok |-> TRUE]

AuxIdle == PoolIdle /\ ScopeIdle /\ UsageIdle /\ SeqIdle

FuncInit == FuncIdle /\ TopIdle /\ InlineIdle /\ ObjectIdle /\ AuxIdle

AddParameter ==
    /\ Len(fn.params) < MaxParams
    /\ \E t \in VarTypes, p \in PassTypes : fn' = add_parameter(fn, t, p)
    /\ fres' = Result("other", TRUE, 0)
    /\ UNCHANGED <<topVars, inlineVars, objectVars, auxVars>>

AddReturn ==
    /\ Len(fn.returns) < MaxParams
    /\ \E t \in VarTypes : fn' = add_return(fn, t)
    /\ fres' = Result("other", TRUE, 0)
    /\ UNCHANGED <<topVars, inlineVars, objectVars, auxVars>>

CreateBlock ==
    /\ Len(blocks(fn)) < MaxBlocks
    /\ fn' = create_block(fn, "b")
    /\ fres' = Result("other", TRUE, 0)
    /\ UNCHANGED <<topVars, inlineVars, objectVars, auxVars>>

GetOrCreateBlock ==
    /\ Len(blocks(fn)) < MaxBlocks
    /\ \E n \in ForwardNames : fn' = get_or_create_block(fn, n)
    /\ fres' = Result("other", TRUE, 0)
    /\ UNCHANGED <<topVars, inlineVars, objectVars, auxVars>>

\* the front end declares a parameter: the signature entry and the variable
DeclareParameter ==
    /\ Len(of_kind(fn.slots, "ParameterVariable")) < MaxParams
    /\ ~fn.varsfinalized
    /\ fn' = declare_variable(add_parameter(fn, "i32", "byval"),
                              "ParameterVariable", "i32")
    /\ fres' = Result("other", TRUE, 0)
    /\ UNCHANGED <<topVars, inlineVars, objectVars, auxVars>>

\* the front end declares a return variable
DeclareReturn ==
    /\ Len(of_kind(fn.slots, "ReturnVariable")) < MaxParams
    /\ ~fn.varsfinalized
    /\ fn' = declare_variable(add_return(fn, "i32"), "ReturnVariable", "i32")
    /\ fres' = Result("other", TRUE, 0)
    /\ UNCHANGED <<topVars, inlineVars, objectVars, auxVars>>

\* the front end defines a stack-resident local at any offset
LocalType(o) == IF o % 2 = 0 THEN "i32" ELSE "q10"

DefineLocal ==
    /\ Len(fn.locals) < MaxLocals
    /\ ~fn.varsfinalized
    /\ \E o \in 0..MaxOffset :
          fn' = [fn EXCEPT !.locals =
                    Append(@, [type |-> LocalType(o), offset |-> o])]
    /\ fres' = Result("other", TRUE, 0)
    /\ UNCHANGED <<topVars, inlineVars, objectVars, auxVars>>

\* block.add(insn) for a block of the function and an instruction of insns
AddTo(idxs, insns) ==
    \E i \in idxs :
        /\ i <= Len(fn.allblocks)
        /\ Len(fn.allblocks[i].insns) < MaxInsns
        /\ \E insn \in insns :
              LET r == add_to(fn, i, insn)
              IN  /\ fn' = r.f
                  /\ fres' = [op |-> "add", ok |-> r.ok, blk |-> i,
                              stage |-> "", insn |-> insn]

UserBlockIdxs == 3..(MaxBlocks + 2)

\* the front end appends to the entry SuperBlock or to a user block
Add ==
    /\ AddTo({EntryIdx} \cup UserBlockIdxs,
             {Plain, Return} \cup {Branch(blocks(fn)[1].name) : x \in
                                     {y \in {1} : Len(blocks(fn)) > 0}})
    /\ UNCHANGED <<topVars, inlineVars, objectVars, auxVars>>

\* the front end closes a user block with a return
AddReturnInsn == AddTo(UserBlockIdxs, {Return}) /\ UNCHANGED <<topVars, inlineVars, objectVars, auxVars>>

AddAdvancementRevoke ==
    /\ fn.allblocks[EntryIdx].insns = <<>>
    /\ LET r == add_advancement_revoke(fn)
       IN  fn' = r.f /\ fres' = Result("other", r.ok, 0)
    /\ UNCHANGED <<topVars, inlineVars, objectVars, auxVars>>

RunCallbackOnExit ==
    /\ fn.post_exit_insns = <<>>
    /\ ~fn.varsfinalized
    /\ fn' = run_callback_on_exit(fn)
    /\ fres' = Result("other", TRUE, 0)
    /\ UNCHANGED <<topVars, inlineVars, objectVars, auxVars>>

End ==
    /\ LET r == end(fn)
       IN  fn' = r.f /\ fres' = Result("end", r.ok, 0)
    /\ UNCHANGED <<topVars, inlineVars, objectVars, auxVars>>

\* (a failed call may leave instructions behind; the guard caps the retries)
VariablesFinalized ==
    /\ Len(fn.allblocks[ExitIdx].insns) <= MaxInsns
    /\ LET r == variables_finalized(fn)
       IN  fn' = r.f /\ fres' = [op |-> "variables_finalized", ok |-> r.ok,
                              blk |-> 0, stage |-> r.stage]
    /\ UNCHANGED <<topVars, inlineVars, objectVars, auxVars>>

\* appending to blocks, before and after finalization
BlockNext ==
    \/ CreateBlock
    \/ Add
    \/ VariablesFinalized

\* stack layout and frame insertion: the function is built, then finalized
Building == fres.op # "variables_finalized"
BuildBlock == Building /\ CreateBlock
BuildForwardBlock == Building /\ GetOrCreateBlock
BuildLocal == Building /\ DefineLocal
BuildReturnInsn == Building /\ AddReturnInsn
BuildRevoke == Building /\ AddAdvancementRevoke
BuildCallback == Building /\ RunCallbackOnExit

FinalNext ==
    \/ BuildBlock
    \/ BuildForwardBlock
    \/ BuildLocal
    \/ BuildReturnInsn
    \/ BuildRevoke
    \/ BuildCallback
    \/ VariablesFinalized

\* parameter and return slots: variables are declared, then the function
\* is finalized
BuildParameter == Building /\ DeclareParameter
BuildReturn == Building /\ DeclareReturn

ParamNext ==
    \/ BuildParameter
    \/ BuildReturn
    \/ BuildBlock
    \/ BuildLocal
    \/ VariablesFinalized

\* end() and variables_finalized() in any order while the blocks are filled
CycleNext ==
    \/ CreateBlock
    \/ Add
    \/ End
    \/ VariablesFinalized

\* signature and block set around end()
LifeNext ==
    \/ AddParameter
    \/ AddReturn
    \/ CreateBlock
    \/ GetOrCreateBlock
    \/ End

SpecBlock == FuncInit /\ [][BlockNext]_vars
SpecFinal == FuncInit /\ [][FinalNext]_vars
SpecLife == FuncInit /\ [][LifeNext]_vars
SpecParam == FuncInit /\ [][ParamNext]_vars
SpecCycle == FuncInit /\ [][CycleNext]_vars

----------------------------------------------------------------------------
(* Two units under construction: unit 1 is filled by the front end, unit 2 *)
(* includes it; both may be ended and written out at any time.             *)

SigA == [params |-> << <<"i32", "byval">> >>, returns |-> <<"i32">>]
SigB == [params |-> << <<"q10", "byval">> >>, returns |-> <<"i32">>]
SigC == [params |-> << <<"i32", "byval">> >>, returns |-> <<>>]

TopResult(op, ok, u, v) == [op |-> op, ok |-> ok, u |-> u, v |-> v]

TopInit ==
    /\ FuncIdle /\ InlineIdle /\ ObjectIdle /\ AuxIdle
    /\ tops = <<TopLevel(1), TopLevel(2)>>
    /\ objs = TopLevelObjects(1) @@ TopLevelObjects(2)
    /\ tres = TopResult("init", TRUE, 0, 0)
    /\ written = <<>>
    /\ linked = [status |-> "none"]

Builders == {1}

UnitFunctions(u) ==
    {n \in FuncNames : /\ n \in scope_names(tops[u].scope)
                       /\ objs[scope_get(tops[u].scope, n)].kind = "func"}

DefineFunction ==
    \E u \in Builders, n \in FuncNames :
        LET r == define_function(objs, tops[u], u, n)
        IN  /\ objs' = r.heap
            /\ tops' = [tops EXCEPT ![u] = r.top]
            /\ tres' = TopResult("other", TRUE, u, 0)
            /\ UNCHANGED <<written, linked>>
            /\ UNCHANGED <<funcVars, inlineVars, objectVars, auxVars>>

\* an extern declaration stores a stub under its name
StoreExtern ==
    \E u \in Builders, n \in FuncNames :
        LET e == ExternFunction(n, PyList(SigA.params), PyList(SigA.returns))
            r == store(tops[u].scope, n, ExternId(u, n))
        IN  /\ e.ok /\ r.ok
            /\ objs' = (ExternId(u, n) :> e.obj) @@ objs
            /\ tops' = [tops EXCEPT ![u].scope = r.scope]
            /\ tres' = TopResult("other", TRUE, u, 0)
            /\ UNCHANGED <<written, linked>>
            /\ UNCHANGED <<funcVars, inlineVars, objectVars, auxVars>>

FuncCreateBlock ==
    \E u \in Builders : \E n \in UnitFunctions(u) :
        /\ blocks(objs[FuncId(u, n)]) = <<>>
        /\ objs' = [objs EXCEPT ![FuncId(u, n)] = create_block(@, "b")]
        /\ tres' = TopResult("other", TRUE, u, 0)
        /\ UNCHANGED <<tops, written, linked>>
        /\ UNCHANGED <<funcVars, inlineVars, objectVars, auxVars>>

FuncEnd ==
    \E u \in Builders : \E n \in UnitFunctions(u) :
        LET r == end(objs[FuncId(u, n)])
        IN  /\ objs' = [objs EXCEPT ![FuncId(u, n)] = r.f]
            /\ tres' = TopResult("other", r.ok, u, 0)
            /\ UNCHANGED <<tops, written, linked>>
            /\ UNCHANGED <<funcVars, inlineVars, objectVars, auxVars>>

TopEndResult(r, u) ==
    /\ tops' = [tops EXCEPT ![u] = r.top]
    /\ tres' = TopResult("end", r.ok, u, 0)
    /\ UNCHANGED <<objs, written, linked>>
    /\ UNCHANGED <<funcVars, inlineVars, objectVars, auxVars>>

TopEndOf(u) == TopEndResult(top_end(objs, tops[u]), u)

TopEnd == \E u \in DOMAIN tops : TopEndOf(u)

Writeout ==
    \E u \in DOMAIN tops :
        LET r == writeout(objs, tops[u])
        IN  /\ written' = r.events
            /\ tres' = TopResult("writeout", r.ok, u, 0)
            /\ UNCHANGED <<objs, tops, linked>>
            /\ UNCHANGED <<funcVars, inlineVars, objectVars, auxVars>>

IncludeFrom ==
    \E u \in DOMAIN tops, v \in DOMAIN tops :
        /\ u # v
        /\ LET r == include_from(objs, tops[u], u, tops[v])
           IN  /\ objs' = r.heap
               /\ tops' = [tops EXCEPT ![u] = r.top]
               /\ tres' = TopResult("include_from", r.ok, u, v)
               /\ UNCHANGED <<written, linked>>
               /\ UNCHANGED <<funcVars, inlineVars, objectVars, auxVars>>

TopNext ==
    \/ DefineFunction
    \/ StoreExtern
    \/ FuncCreateBlock
    \/ FuncEnd
    \/ TopEnd
    \/ Writeout
    \/ IncludeFrom

SpecTop == TopInit /\ [][TopNext]_vars

----------------------------------------------------------------------------
(* Linking.  Each unit is built by the front end from a small family: the  *)
(* name f is absent, an extern stub or a genuine function; the unit may    *)
(* call f from a function of its own or register f as a setup function.    *)
(* Units are ended one by one and then linked once.                        *)

NumUnits == 2
Units == 1..NumUnits

SigNone == [params |-> <<>>, returns |-> <<>>]

CallerName(u) == "g" \o Digits[u + 1]

RECURSIVE add_parameters(_, _)
add_parameters(f, ps) ==
    IF ps = <<>> THEN f
    ELSE add_parameters(add_parameter(f, Head(ps)[1], Head(ps)[2]), Tail(ps))

RECURSIVE add_returns(_, _)
add_returns(f, rs) ==
    IF rs = <<>> THEN f ELSE add_returns(add_return(f, Head(rs)), Tail(rs))

\* the calls that fill a new function: signature, one block, its
\* instructions, end()
built_function(f, sig, insns) ==
    end(add_all(create_block(add_returns(add_parameters(f, sig.params),
                                         sig.returns), "b"),
                [i \in 1..Len(insns) |-> AddStep(ExitIdx + 1, insns[i])]).f).f

with_built(d, id, sig, insns) ==
    [d EXCEPT !.heap[id] = built_function(@, sig, insns)]

with_function(r, u, name, sig, insns) ==
    with_built(define_function(r.heap, r.top, u, name), FuncId(u, name), sig, insns)

with_extern(r, u, name, sig) ==
    [heap |-> (ExternId(u, name) :>
                 ExternFunction(name, PyList(sig.params), PyList(sig.returns)).obj)
              @@ r.heap,
     top |-> [r.top EXCEPT !.scope = store(@, name, ExternId(u, name)).scope]]

\* preamble.add(SetupInsn(func))
with_setup(r, id) == [r EXCEPT !.top.preamble = Append(@, SetupInsn(id))]

UnitConfigs ==
    {[f |-> "none", sig |-> SigA, use |-> "none"]}
        \cup {[f |-> "extern", sig |-> s, use |-> x] :
                s \in {SigA, SigB, SigC}, x \in {"none", "call", "setup"}}
        \cup {[f |-> "func", sig |-> SigA, use |-> x] :
                x \in {"none", "call", "setup"}}

unit_f(u, cfg) == IF cfg.f = "extern" THEN ExternId(u, "f") ELSE FuncId(u, "f")

unit_with_f(r, u, cfg) ==
    IF cfg.f = "extern" THEN with_extern(r, u, "f", cfg.sig)
    ELSE IF cfg.f = "func" THEN with_function(r, u, "f", cfg.sig, <<Return>>)
    ELSE r

unit_with_use(r, u, cfg) ==
    IF cfg.use = "call"
    THEN with_function(r, u, CallerName(u), SigNone,
                       <<Invoke(unit_f(u, cfg)), Return>>)
    ELSE IF cfg.use = "setup" THEN with_setup(r, unit_f(u, cfg))
    ELSE r

build_unit(u, cfg) ==
    unit_with_use(
        unit_with_f([heap |-> TopLevelObjects(u), top |-> TopLevel(u)], u, cfg),
        u, cfg)

merged_heap(hs) ==
    [id \in UNION {DOMAIN hs[u] : u \in DOMAIN hs} |->
        hs[CHOOSE u \in DOMAIN hs : id \in DOMAIN hs[u]][id]]

LinkInit ==
    /\ FuncIdle /\ InlineIdle /\ ObjectIdle /\ AuxIdle
    /\ \E cfgs \in [Units -> UnitConfigs] :
          /\ tops = [u \in Units |-> build_unit(u, cfgs[u]).top]
          /\ objs = merged_heap([u \in Units |-> build_unit(u, cfgs[u]).heap])
    /\ tres = TopResult("init", TRUE, 0, 0)
    /\ written = <<>>
    /\ linked = [status |-> "none"]

\* the units handed to the linker: any of them, in their order
Selections ==
    {s \in UNION {[1..k -> Units] : k \in 1..NumUnits} :
        \A i \in 1..Len(s), j \in 1..Len(s) : i < j => s[i] < s[j]}

EndUnit ==
    /\ linked.status = "none"
    /\ \E u \in Units :
          /\ ~tops[u].finished
          /\ TopEndOf(u)

link_result(L, sel) ==
    IF L.ok THEN [status |-> "ok", top |-> L.out, units |-> sel]
    ELSE [status |-> "failed", reason |-> L.reason, units |-> sel]

LinkResult(L, sel) ==
    /\ objs' = L.heap
    /\ linked' = link_result(L, sel)
    /\ tres' = TopResult("link", L.ok, 0, 0)
    /\ UNCHANGED <<tops, written>>
    /\ UNCHANGED <<funcVars, inlineVars, objectVars, auxVars>>

Link ==
    /\ linked.status = "none"
    /\ \E sel \in Selections :
          LinkResult(linker(objs, [i \in 1..Len(sel) |-> tops[sel[i]]]), sel)

LinkWriteoutResult(r) ==
    /\ written' = r.events
    /\ tres' = TopResult("link_writeout", r.ok, 0, 0)
    /\ UNCHANGED <<objs, tops, linked>>
    /\ UNCHANGED <<funcVars, inlineVars, objectVars, auxVars>>

LinkWriteout ==
    /\ linked.status = "ok"
    /\ LinkWriteoutResult(writeout(objs, linked.top))

LinkNext ==
    \/ EndUnit
    \/ Link
    \/ LinkWriteout

SpecLink == LinkInit /\ [][LinkNext]_vars

----------------------------------------------------------------------------
(* Inlining a function into a caller.  The source function is built by the *)
(* front end with some parameters and one or two blocks that return; the   *)
(* caller holds the variables x and y and one block.                       *)

ParamKinds == {<<"i32", "byval">>, <<"q10", "byval">>, <<"i32", "byref">>}

ParamLists == UNION {[1..k -> ParamKinds] : k \in 0..MaxParams}

\* one Return closes every block
source_steps(n) == [k \in 1..n |-> AddStep(ExitIdx + k, Return)]

RECURSIVE create_blocks(_, _)
create_blocks(f, n) ==
    IF n = 0 THEN f ELSE create_blocks(create_block(f, "b"), n - 1)

source_function(params, n) ==
    add_all(create_blocks(add_parameters(IRFunction("f"), params), n),
            source_steps(n)).f

CallerVars == << [name |-> "x", type |-> "i32"], [name |-> "y", type |-> "q10"] >>

CallerFunction == create_block(IRFunction("caller"), "b")

Callers ==
    { [f |-> CallerFunction, vars |-> CallerVars, preamble |-> <<>>],
      [f |-> CallerFunction,
       vars |-> Append(CallerVars, [name |-> "x_copy", type |-> "i32"]),
       preamble |-> <<>>],
      [f |-> [CallerFunction EXCEPT !.varsfinalized = TRUE],
       vars |-> CallerVars, preamble |-> <<>>] }

InlineInit ==
    /\ \E params \in ParamLists, n \in {1, 2} : fn = source_function(params, n)
    /\ fres = Result("init", TRUE, 0)
    /\ TopIdle /\ ObjectIdle /\ AuxIdle
    /\ caller \in Callers
    /\ ires = [op |-> "none"]

ArgChoices == {IntArg, FloatArg, VarArg("x", "i32"), VarArg("y", "q10")}

ArgLists ==
    {PyNone} \cup {PyList(s) : s \in UNION {[1..k -> ArgChoices] : k \in 0..MaxParams}}

RetvarLists == {PyNone, PyList(<<NoneArg>>)}

SourceEnd == ires.op = "none" /\ End

InlineResult(r, args) ==
    /\ caller' = r.other
    /\ ires' = [op |-> "inline_into", ok |-> r.ok, args |-> args.v,
                entry |-> r.entry, exit |-> r.exit]
    /\ UNCHANGED <<funcVars, topVars, objectVars, auxVars>>

InlineInto ==
    /\ ires.op = "none"
    /\ \E args \in ArgLists, retvars \in RetvarLists :
          InlineResult(inline_into(fn, caller, args, retvars), args)

InlineNext ==
    \/ SourceEnd
    \/ InlineInto

SpecInline == InlineInit /\ [][InlineNext]_vars

----------------------------------------------------------------------------
(* Saving and loading a unit.  The blob is written by this release or by   *)
(* a release with another format version.                                  *)

Releases == {VERSION, "0.9.0"}

unit_state(r) ==
    /\ tops = <<r.top>>
    /\ objs = r.heap

ObjectInit ==
    /\ FuncIdle /\ InlineIdle /\ ObjectIdle /\ AuxIdle
    /\ \E cfg \in UnitConfigs : unit_state(build_unit(1, cfg))
    /\ tres = TopResult("init", TRUE, 0, 0)
    /\ written = <<>>
    /\ linked = [status |-> "none"]

Save ==
    /\ blob.status = "none"
    /\ \E u \in DOMAIN tops, version \in Releases :
          blob' = [status |-> "saved", version |-> version,
                   saved |-> top_graph(objs, tops[u]),
                   data |-> save(top_graph(objs, tops[u]), version)]
    /\ UNCHANGED <<funcVars, topVars, inlineVars, loaded, auxVars>>

LoadResult(r) ==
    /\ loaded' = [op |-> "load", ok |-> r.ok, v |-> r.v]
    /\ UNCHANGED <<funcVars, topVars, inlineVars, blob, auxVars>>

Load ==
    /\ blob.status = "saved"
    /\ LoadResult(load(blob.data))

ObjectNext ==
    \/ TopEnd
    \/ Save
    \/ Load

SpecObject == ObjectInit /\ [][ObjectNext]_vars

----------------------------------------------------------------------------
(* The scratch-variable pool under any sequence of next, free and finish *)

PoolInit ==
    /\ FuncIdle /\ TopIdle /\ InlineIdle /\ ObjectIdle
    /\ PoolIdle /\ ScopeIdle /\ UsageIdle /\ SeqIdle

PoolNextResult(r) ==
    /\ pool' = r.p
    /\ pres' = [op |-> "next", ok |-> TRUE, v |-> r.v]
    /\ written' = IF r.minted
                  THEN Append(written, Event("write_objective", <<r.v>>))
                  ELSE written
    /\ UNCHANGED <<objs, tops, tres, linked>>
    /\ UNCHANGED <<funcVars, inlineVars, objectVars, scopeVars, usageVars, seqVars>>

PoolNext ==
    /\ pool.temps # <<>> \/ pool.counter < MaxTemps
    /\ PoolNextResult(next(pool))

PoolFreeResult(r, temp) ==
    /\ pool' = r.p
    /\ pres' = [op |-> "free", ok |-> r.ok, v |-> temp]
    /\ UNCHANGED <<funcVars, topVars, inlineVars, objectVars, scopeVars, usageVars, seqVars>>

\* any cell name may be handed to free, minted or not
PoolFree ==
    \E n \in 0..MaxTemps : PoolFreeResult(free(pool, TempName(n)), TempName(n))

PoolFinish ==
    /\ pres' = [op |-> "finish", ok |-> finish(pool), v |-> ""]
    /\ UNCHANGED <<funcVars, topVars, inlineVars, objectVars, scopeVars, usageVars, seqVars, pool>>

PoolStep ==
    \/ PoolNext
    \/ PoolFree
    \/ PoolFinish

SpecPool == PoolInit /\ [][PoolStep]_vars

----------------------------------------------------------------------------
(* A chain of three scopes (a unit's, a function's, a nested one) under    *)
(* any sequence of insertions and lookups                                  *)

ScopeInit ==
    /\ FuncIdle /\ TopIdle /\ InlineIdle /\ ObjectIdle
    /\ PoolIdle /\ UsageIdle /\ SeqIdle
    /\ scopes = <<Scope(0), Scope(1), Scope(2)>>
    /\ sres = [op |-> "init", ok |-> TRUE, v |-> ""]

ScopeFrame ==
    UNCHANGED <<funcVars, topVars, inlineVars, objectVars, poolVars, usageVars, seqVars>>

\* the number of entries of all scopes of the chain
RECURSIVE entries(_)
entries(chain) ==
    IF chain = <<>> THEN 0 ELSE Len(Head(chain).map) + entries(Tail(chain))

ScopeSet ==
    \E i \in DOMAIN scopes, key \in ScopeNames, value \in ScopeValues :
        /\ contains_no_parent(scopes, i, key) \/ entries(scopes) < MaxEntries
        /\ scopes' = setitem(scopes, i, key, value)
        /\ sres' = [op |-> "set", i |-> i, key |-> key, ok |-> TRUE, v |-> value]
        /\ ScopeFrame

ScopeLookup(op, r, i, key) ==
    /\ sres' = [op |-> op, i |-> i, key |-> key, ok |-> r.ok, v |-> r.v]
    /\ UNCHANGED scopes
    /\ ScopeFrame

ScopeGet ==
    \E i \in DOMAIN scopes, key \in ScopeNames :
        ScopeLookup("get", getitem(scopes, i, key), i, key)

ScopeGetLocal ==
    \E i \in DOMAIN scopes, key \in ScopeNames :
        ScopeLookup("get_no_parent", get_no_parent(scopes, i, key), i, key)

ScopeContains ==
    \E i \in DOMAIN scopes, key \in ScopeNames :
        ScopeLookup("contains", [ok |-> contains(scopes, i, key), v |-> ""], i, key)

ScopeContainsLocal ==
    \E i \in DOMAIN scopes, key \in ScopeNames :
        ScopeLookup("contains_no_parent",
                    [ok |-> contains_no_parent(scopes, i, key), v |-> ""], i, key)

\* transform_scope removes an entry of the scope
ScopeDelete ==
    \E i \in DOMAIN scopes, key \in ScopeNames :
        /\ contains_no_parent(scopes, i, key)
        /\ scopes' = delitem(scopes, i, key)
        /\ sres' = [op |-> "del", i |-> i, key |-> key, ok |-> TRUE, v |-> ""]
        /\ ScopeFrame

ScopeForValue ==
    \E i \in DOMAIN scopes, value \in ScopeValues, look_parent \in BOOLEAN :
        /\ sres' = [op |-> "for_value", i |-> i, key |-> value,
                    ok |-> for_value(scopes, i, value, look_parent).ok,
                    v |-> for_value(scopes, i, value, look_parent).v,
                    look_parent |-> look_parent]
        /\ UNCHANGED scopes
        /\ ScopeFrame

ScopeNext ==
    \/ ScopeSet
    \/ ScopeGet
    \/ ScopeGetLocal
    \/ ScopeContains
    \/ ScopeContainsLocal

SpecScope == ScopeInit /\ [][ScopeNext]_vars

\* a scope and its parent under insertions, overwrites, deletions and
\* reverse lookups
ReverseInit ==
    /\ FuncIdle /\ TopIdle /\ InlineIdle /\ ObjectIdle
    /\ PoolIdle /\ UsageIdle /\ SeqIdle
    /\ scopes = <<Scope(0), Scope(1)>>
    /\ sres = [op |-> "init", ok |-> TRUE, v |-> ""]

ReverseNext ==
    \/ ScopeSet
    \/ ScopeDelete
    \/ ScopeForValue

SpecReverse == ReverseInit /\ [][ReverseNext]_vars

----------------------------------------------------------------------------
(* The entry and the exit SuperBlock of a function under usage(), reset(), *)
(* superclear() and use_count() in any order.  ures.calls[i] counts the    *)
(* usage() calls on block i since its last reset() as a cleared block or   *)
(* since it was cleared.                                                   *)

UsageInit ==
    /\ FuncIdle /\ TopIdle /\ InlineIdle /\ ObjectIdle
    /\ PoolIdle /\ ScopeIdle /\ SeqIdle
    /\ sblk = <<[use |-> 0, clear |-> FALSE, is_entry |-> TRUE],
                [use |-> 0, clear |-> FALSE, is_entry |-> FALSE]>>
    /\ ures = [op |-> "init", i |-> EntryIdx, v |-> 0, calls |-> <<0, 0>>]

UsageFrame ==
    UNCHANGED <<funcVars, topVars, inlineVars, objectVars, poolVars, scopeVars, seqVars>>

Usage ==
    \E i \in DOMAIN sblk :
        /\ ures.calls[i] < MaxUses
        /\ sblk' = [sblk EXCEPT ![i] = usage(@)]
        /\ ures' = [op |-> "usage", i |-> i, v |-> 0,
                    calls |-> [ures.calls EXCEPT ![i] = @ + 1]]
        /\ UsageFrame

Reset ==
    \E i \in DOMAIN sblk :
        /\ sblk' = [sblk EXCEPT ![i] = reset(@)]
        /\ ures' = [op |-> "reset", i |-> i, v |-> 0,
                    calls |-> IF sblk[i].clear
                              THEN [ures.calls EXCEPT ![i] = 0] ELSE ures.calls]
        /\ UsageFrame

Superclear ==
    \E i \in DOMAIN sblk :
        /\ sblk' = [sblk EXCEPT ![i] = superclear(@)]
        /\ ures' = [op |-> "superclear", i |-> i, v |-> 0,
                    calls |-> IF sblk[i].clear
                              THEN ures.calls ELSE [ures.calls EXCEPT ![i] = 0]]
        /\ UsageFrame

UseCount ==
    \E i \in DOMAIN sblk :
        /\ ures' = [op |-> "use_count", i |-> i, v |-> use_count(sblk[i]),
                    calls |-> ures.calls]
        /\ UNCHANGED sblk
        /\ UsageFrame

UsageNext ==
    \/ Usage
    \/ Reset
    \/ Superclear
    \/ UseCount

SpecUsage == UsageInit /\ [][UsageNext]_vars

----------------------------------------------------------------------------
(* Deferred signature checks.  The function f of unit 1 is new or replaces *)
(* an extern stub through define_function; the front end has given it its  *)
(* signature; blocks, signature expectations and end() follow in any order.*)

SigChoices == {SigNone, SigA, SigB, SigC}

\* unit 1 with an extern stub f of signature sig
stub_heap(sig) ==
    (ExternId(1, "f") :>
        ExternFunction("f", PyList(sig.params), PyList(sig.returns)).obj)
    @@ TopLevelObjects(1)

stub_top == [TopLevel(1) EXCEPT !.scope = store(@, "f", ExternId(1, "f")).scope]

\* the function define_function returns in place of the stub
replacing(sig) == define_function(stub_heap(sig), stub_top, 1, "f").heap[FuncId(1, "f")]

SigInit ==
    /\ TopIdle /\ InlineIdle /\ ObjectIdle /\ AuxIdle
    /\ \E own \in SigChoices, stub \in SigChoices, declared \in BOOLEAN :
          fn = add_returns(
                   add_parameters(IF declared THEN replacing(stub)
                                  ELSE FunctionObject("f", 1), own.params),
                   own.returns)
    /\ fres = Result("init", TRUE, 0)

ExpectSignature ==
    /\ fn.finished \/ Len(fn.future_expect_sig) < MaxDeferred
    /\ \E other \in SigChoices :
          LET r == expect_signature(fn, other)
          IN  fn' = r.f /\ fres' = Result("expect_signature", r.ok, 0)
    /\ UNCHANGED <<topVars, inlineVars, objectVars, auxVars>>

SigNext ==
    \/ CreateBlock
    \/ GetOrCreateBlock
    \/ ExpectSignature
    \/ End

SpecSig == SigInit /\ [][SigNext]_vars

----------------------------------------------------------------------------
(* Named adds to the sequences of one holder *)

SeqInit ==
    /\ FuncIdle /\ TopIdle /\ InlineIdle /\ ObjectIdle
    /\ PoolIdle /\ ScopeIdle /\ UsageIdle
    /\ seq = Holder
    /\ qres = [op |-> "init", ok |-> TRUE]

SeqFrame ==
    UNCHANGED <<funcVars, topVars, inlineVars, objectVars, poolVars, scopeVars,
                usageVars>>

\* seq.add(insn, with_name, namehint); the result keeps the holder as it
\* was before the call
AddNamed(target, insns) ==
    \E insn \in insns, with_name \in {"False", "True", "x"}, namehint \in {"", "x"} :
        /\ Len(seq_insns(seq, target)) < MaxInsns
        /\ Len(seq.scope) < MaxEntries
        /\ seq' = add_named(seq, target, insn, with_name, namehint).h
        /\ qres' = [op |-> "add", target |-> target, with_name |-> with_name,
                    ok |-> add_named(seq, target, insn, with_name, namehint).ok,
                    stage |-> add_named(seq, target, insn, with_name, namehint).stage,
                    before |-> seq]

AddToBlock ==
    /\ AddNamed("block", {Plain, Branch("b"), ExternInsn, DefineVariable("i32")})
    /\ SeqFrame

AddToPreamble ==
    /\ AddNamed("preamble", {Plain, ExternInsn, DefineVariable("i32")})
    /\ SeqFrame

SeqNext ==
    \/ AddToBlock
    \/ AddToPreamble

SpecSeq == SeqInit /\ [][SeqNext]_vars

----------------------------------------------------------------------------
(* Properties *)

Last(s) == s[Len(s)]
Terminated(b) == b.insns # <<>> /\ terminator(Last(b.insns))

\* C1: an add to a block whose last instruction is a terminator fails and
\* leaves the function (so the block's instruction list) unchanged when the
\* block's force flag is not set; with force set the add is accepted and
\* appends one instruction.  A terminated block without force keeps its
\* instruction list in every step.
C1_TerminatedBlockRejectsAdd ==
    [][ /\ fres'.op = "add" =>
            LET b == fn.allblocks[fres'.blk]
            IN  /\ (Terminated(b) /\ ~b.force) => (~fres'.ok /\ fn' = fn)
                /\ (Terminated(b) /\ b.force) =>
                      /\ fres'.ok
                      /\ Len(fn'.allblocks[fres'.blk].insns) = Len(b.insns) + 1
                      /\ SubSeq(fn'.allblocks[fres'.blk].insns, 1, Len(b.insns))
                            = b.insns
        /\ \A i \in 1..Len(fn.allblocks) :
              (Terminated(fn.allblocks[i]) /\ ~fn'.allblocks[i].force)
                 => fn'.allblocks[i].insns = fn.allblocks[i].insns
      ]_vars

\* C1 witness: an add to a terminated user block was just rejected, while the
\* forced entry SuperBlock holds an instruction after its terminator
C1_Witness ==
    /\ fres.op = "add" /\ ~fres.ok /\ fres.blk > ExitIdx
    /\ Terminated(fn.allblocks[fres.blk]) /\ ~fn.allblocks[fres.blk].force
    /\ fn.allblocks[EntryIdx].force
    /\ \E k \in 1..(Len(fn.allblocks[EntryIdx].insns) - 1) :
          terminator(fn.allblocks[EntryIdx].insns[k])

\* the offsets of the stack-resident locals are exactly 0..N-1, none twice
DensePermutation(f) ==
    LET offs == {f.locals[i].offset : i \in 1..Len(f.locals)}
    IN  offs = 0..(Len(f.locals) - 1) /\ Cardinality(offs) = Len(f.locals)

\* C5: variables_finalized, called on a defined and not yet finalized
\* function, passes the stack-layout check exactly when the offsets of the N
\* stack-resident locals are the set 0..N-1 without duplicates; otherwise it
\* fails there with the function (entry and exit SuperBlock included)
\* unchanged.  With a dense layout, all user blocks defined and the
\* SuperBlocks open for appending, finalization succeeds.
C5_DenseOffsetsOrFail ==
    [][ (fres'.op = "variables_finalized" /\ is_defined(fn) /\ ~fn.varsfinalized)
          => /\ ~DensePermutation(fn) =>
                   (~fres'.ok /\ fres'.stage = "layout" /\ fn' = fn)
             /\ DensePermutation(fn) => fres'.stage # "layout"
             /\ fres'.ok => DensePermutation(fn)
             /\ ( /\ DensePermutation(fn)
                  /\ \A i \in 1..Len(fn.allblocks) : fn.allblocks[i].defined
                  /\ ~Terminated(fn.allblocks[EntryIdx])
                  /\ ~Terminated(fn.allblocks[ExitIdx]) ) => fres'.ok
      ]_vars

\* C5 witness: finalization was refused for three locals whose first and last
\* sorted offsets look right but collide (0, 0, 2 in some order)
C5_Witness ==
    /\ fres.op = "variables_finalized" /\ ~fres.ok /\ fres.stage = "layout"
    /\ Len(fn.locals) = 3
    /\ {fn.locals[i].offset : i \in 1..3} = {0, 2}
    /\ fn.allblocks[EntryIdx].insns = <<>>

\* C7: once end() has succeeded the parameter list, the return list and the
\* set of blocks never change again
C7_ClosedAfterEnd ==
    [][ fn.finished => /\ fn'.params = fn.params
                       /\ fn'.returns = fn.returns
                       /\ BlockNames(fn') = BlockNames(fn) ]_vars

\* some function of the unit's root scope has not been ended
HasUnfinishedFunction(heap, top) ==
    \E i \in 1..Len(top.scope) :
        heap[top.scope[i].id].kind = "func" /\ ~heap[top.scope[i].id].finished

\* C8: TopLevel.end() fails and leaves the unit unchanged (finished false) when
\* a function of the root scope was never finished, and otherwise sets
\* finished; end() on a finished unit fails; writeout on a unit that is not
\* finished fails and the writer receives nothing.
C8_EndAndWriteoutNeedFinished ==
    [][ /\ tres'.op = "end" =>
            IF tops[tres'.u].finished THEN ~tres'.ok /\ tops' = tops
            ELSE IF HasUnfinishedFunction(objs, tops[tres'.u])
                 THEN ~tres'.ok /\ tops' = tops /\ ~tops'[tres'.u].finished
            ELSE tres'.ok /\ tops'[tres'.u].finished
        /\ (tres'.op = "writeout" /\ ~tops[tres'.u].finished) =>
            (~tres'.ok /\ written' = <<>>)
      ]_vars

\* C8 witness: end() was just refused on a unit that holds an unfinished
\* function next to an extern stub
C8_Witness ==
    /\ tres.op = "end" /\ ~tres.ok
    /\ ~tops[tres.u].finished
    /\ HasUnfinishedFunction(objs, tops[tres.u])
    /\ \E i \in 1..Len(tops[tres.u].scope) :
          objs[tops[tres.u].scope[i].id].kind = "extern"

\* C10: after a.include_from(b), every finished function of b whose name is
\* not underscore-prefixed is in a's root scope as an extern stub with the
\* same global name, parameters and returns.
C10_IncludeFromImportsStubs ==
    tres.op = "include_from" =>
        \A i \in 1..Len(tops[tres.v].scope) :
            LET e == tops[tres.v].scope[i]
            IN  ( /\ objs[e.id].kind = "func" /\ objs[e.id].finished
                  /\ ~starts_with_dunder(e.name) )
                => /\ e.name \in scope_names(tops[tres.u].scope)
                   /\ objs[scope_get(tops[tres.u].scope, e.name)].kind = "extern"
                   /\ objs[scope_get(tops[tres.u].scope, e.name)].gname
                         = objs[e.id].name
                   /\ objs[scope_get(tops[tres.u].scope, e.name)].params
                         = objs[e.id].params
                   /\ objs[scope_get(tops[tres.u].scope, e.name)].returns
                         = objs[e.id].returns

\* the entries of the root scopes of the linked units
LinkedEntries ==
    UNION {{tops[linked.units[i]].scope[k] : k \in 1..Len(tops[linked.units[i]].scope)} :
             i \in 1..Len(linked.units)}

\* the ids the linked units declare under name as a function of a kind
DeclaredAs(name, kinds) ==
    {e.id : e \in {x \in LinkedEntries : x.name = name /\ objs[x.id].kind \in kinds}}

LinkedNames == {e.name : e \in LinkedEntries}

\* every operand of a sequence of instructions
Operands(insns) ==
    UNION {{insns[k].a[j] : j \in 1..Len(insns[k].a)} : k \in 1..Len(insns)}

\* the operands of every block of every function of a unit
BlockOperands(top) ==
    UNION {UNION {Operands(objs[top.scope[i].id].allblocks[b].insns) :
                    b \in 1..Len(objs[top.scope[i].id].allblocks)} :
             i \in {j \in 1..Len(top.scope) : objs[top.scope[j].id].kind = "func"}}

StubOperands(ops, name) ==
    {id \in ops \cap DOMAIN objs : objs[id].kind = "extern" /\ objs[id].gname = name}

SignatureDiffers(a, b) ==
    objs[a].params # objs[b].params \/ objs[a].returns # objs[b].returns

\* some stub of the linked units differs from another stub, or from the
\* genuine definition, of its name
SignatureMismatch ==
    \E name \in LinkedNames :
        \E a \in DeclaredAs(name, {"extern"}), b \in DeclaredAs(name, {"extern", "func"}) :
            SignatureDiffers(a, b)

\* the linked units are finished and no name is defined by two of them
CollectionSucceeds ==
    /\ \A i \in 1..Len(linked.units) : tops[linked.units[i]].finished
    /\ \A name \in LinkedNames : Cardinality(DeclaredAs(name, {"func"})) <= 1

\* C3: linking fails whenever two stubs of a name differ in parameters or in
\* returns, or a stub differs from the genuine definition of its name; the
\* failure is the signature assertion once every unit is finished and no name
\* is defined twice; and the signature assertion fails only on such a
\* difference.
C3_SignatureMismatchFails ==
    (linked.status # "none" /\ Len(linked.units) >= 2) =>
        /\ SignatureMismatch => linked.status = "failed"
        /\ (SignatureMismatch /\ CollectionSucceeds) =>
              (linked.status = "failed" /\ linked.reason = "signature")
        /\ (linked.status = "failed" /\ linked.reason = "signature") =>
              SignatureMismatch

\* C3 witness: two stubs of f that agree on parameters and differ in returns
\* were linked, no unit defines f, and the link failed on the signature
C3_Witness ==
    /\ linked.status = "failed" /\ linked.reason = "signature"
    /\ DeclaredAs("f", {"func"}) = {}
    /\ \E a \in DeclaredAs("f", {"extern"}), b \in DeclaredAs("f", {"extern"}) :
          objs[a].params = objs[b].params /\ objs[a].returns # objs[b].returns

Count(s, x) == Cardinality({i \in 1..Len(s) : s[i] = x})

\* unit a defines f, unit b holds a stub of f with the same signature and a
\* function that calls it; both are finished and were linked as (a, b)
CallScenario(a, b) ==
    /\ linked.status # "none" /\ linked.units = <<a, b>>
    /\ tops[a].finished /\ tops[b].finished
    /\ DeclaredAs("f", {"func"}) = {FuncId(a, "f")}
    /\ DeclaredAs("f", {"extern"}) = {ExternId(b, "f")}
    /\ ~SignatureDiffers(FuncId(a, "f"), ExternId(b, "f"))
    /\ DeclaredAs(CallerName(b), {"func"}) # {}

CallOperand(b) == objs[FuncId(b, CallerName(b))].allblocks[ExitIdx + 1].insns[1].a[1]

TableNames == UNION {{written[i].names} : i \in {j \in 1..Len(written) : written[j].ev = "write_func_table"}}

CallResolved(a, b) ==
    /\ linked.status = "ok"
    /\ CallOperand(b) = FuncId(a, "f")
    /\ tres.op = "link_writeout" =>
          /\ tres.ok
          /\ Count(written, Event("write_function", <<"f">>)) = 1

\* C4 (as stated): in the scenario, link and writeout succeed, the call in
\* b's block refers to a's f, one body is written under the name f, and the
\* function-name table lists f exactly once.
C4_TableListsNameOnce ==
    \A a \in Units, b \in Units :
        CallScenario(a, b) =>
            /\ CallResolved(a, b)
            /\ tres.op = "link_writeout" =>
                  \A t \in TableNames : Count(t, "f") = 1

\* C4 (amended): in the scenario, link and writeout succeed, the call in b's
\* block refers to a's f, one body is written under the name f, and the
\* function-name table lists f exactly twice: as the global name of the entry
\* block and as the function's own name.
C4_TableListsNameTwice ==
    \A a \in Units, b \in Units :
        CallScenario(a, b) =>
            /\ CallResolved(a, b)
            /\ tres.op = "link_writeout" =>
                  /\ TableNames # {}
                  /\ \A t \in TableNames : Count(t, "f") = 2

\* C4 witness: the scenario was linked and written out
C4_Witness ==
    /\ tres.op = "link_writeout" /\ tres.ok
    /\ \E a \in Units, b \in Units : CallScenario(a, b) /\ a # b

\* the variable arguments of a call, in order
VariableArgs(args) == SelectSeq(args, LAMBDA a : a.kind = "var")

\* the positions of the instructions of the blocks added to the target
AddedInsns(before, after) ==
    {bk \in (Len(before.f.allblocks) + 1 .. Len(after.f.allblocks)) \X (1..(MaxParams + 2)) :
        bk[2] <= Len(after.f.allblocks[bk[1]].insns)}

\* a copy: SetScore from a variable the target already had
IsCopy(insn, before) ==
    insn.k = "SetScore" /\ Len(insn.a) = 2 /\ insn.a[2] \in VarNames(before)

SourceInsnCount(f) ==
    Cardinality({bk \in (1..Len(f.allblocks)) \X (1..(MaxInsns + 1)) :
                    bk[2] <= Len(f.allblocks[bk[1]].insns)})

\* C6: a successful inline_into of a function whose parameters are all
\* by-value and that has no stack-resident locals adds one copy per variable
\* argument and none for a literal: the block mapped from the source's first
\* block starts with the copies, in argument order, each into a distinct
\* variable that is new in the target, followed by the replayed instructions;
\* no other instruction added is a copy and the old blocks are untouched.
C6_OneCopyPerVariableArgument ==
    [][ ( /\ ires.op = "none" /\ ires'.op = "inline_into" /\ ires'.ok
          /\ \A i \in 1..Len(fn.params) : fn.params[i][2] = "byval"
          /\ fn.locals = <<>> )
        => /\ ires'.entry > Len(caller.f.allblocks)
           /\ ires'.entry <= Len(caller'.f.allblocks)
           /\ \A b \in 1..Len(caller.f.allblocks) :
                 caller'.f.allblocks[b] = caller.f.allblocks[b]
           /\ Len(caller'.f.allblocks[ires'.entry].insns)
                 = Len(VariableArgs(ires'.args)) + Len(fn.allblocks[ExitIdx + 1].insns)
           /\ \A k \in 1..Len(VariableArgs(ires'.args)) :
                 /\ IsCopy(caller'.f.allblocks[ires'.entry].insns[k], caller)
                 /\ caller'.f.allblocks[ires'.entry].insns[k].a[2]
                       = VariableArgs(ires'.args)[k].v
                 /\ caller'.f.allblocks[ires'.entry].insns[k].a[1]
                       \in VarNames(caller') \ holder_names(caller)
                 /\ \A j \in 1..Len(VariableArgs(ires'.args)) :
                       j # k => caller'.f.allblocks[ires'.entry].insns[j].a[1]
                                  # caller'.f.allblocks[ires'.entry].insns[k].a[1]
           /\ Cardinality({bk \in AddedInsns(caller, caller') :
                            IsCopy(caller'.f.allblocks[bk[1]].insns[bk[2]], caller)})
                 = Len(VariableArgs(ires'.args))
           /\ Cardinality(AddedInsns(caller, caller'))
                 = Len(VariableArgs(ires'.args)) + SourceInsnCount(fn)
      ]_vars

\* C6 witness: a function with two by-value parameters was inlined with a
\* literal and the variable x into a caller that already had x_copy
C6_Witness ==
    /\ ires.op = "inline_into" /\ ires.ok
    /\ Len(fn.params) = 2
    /\ \A i \in 1..Len(fn.params) : fn.params[i][2] = "byval"
    /\ ires.args = <<IntArg, VarArg("x", "i32")>>
    /\ "x_copy0" \in VarNames(caller)
    /\ caller.f.allblocks[ires.entry].insns[1] = SetScore("x_copy0", "x")

\* the visible functions of a serialized unit: name, signature, block count
FunctionsOf(g) ==
    {g.scope[i] : i \in {j \in 1..Len(g.scope) : g.scope[j].kind \in {"func", "extern"}}}

\* C9: load of what save wrote for a finished unit succeeds and returns the
\* TopLevel, with the same visible function names, signatures and block
\* counts; load of a blob with another version stamp fails and returns
\* nothing.
C9_LoadReturnsSavedTopLevel ==
    (loaded.op = "load" /\ blob.saved.finished) =>
        IF blob.version = VERSION
        THEN /\ loaded.ok
             /\ loaded.v.cls = "TopLevel"
             /\ FunctionsOf(loaded.v) = FunctionsOf(blob.saved)
        ELSE ~loaded.ok /\ loaded.v.cls = "none"

\* C11: next never returns a cell that is in use; free of a cell that is not
\* in use fails and leaves the pool unchanged, and free of a cell in use
\* takes it out of use; finish fails exactly when some cell is in use.
C11_PoolCheckedOutCells ==
    [][ /\ pres'.op = "next" =>
              (pres'.v \notin pool.in_use /\ pres'.v \in pool'.in_use)
        /\ pres'.op = "free" =>
              IF pres'.v \in pool.in_use
              THEN pres'.ok /\ pres'.v \notin pool'.in_use
              ELSE ~pres'.ok /\ pool' = pool
        /\ pres'.op = "finish" => (pres'.ok <=> pool.in_use = {})
      ]_vars

\* C11 witness: a cell that was handed out and freed is freed a second time
\* while another cell is still in use
C11_Witness ==
    /\ pres.op = "free" /\ ~pres.ok
    /\ \E i \in 1..Len(pool.temps) : pool.temps[i] = pres.v
    /\ pool.in_use # {}

\* the scopes from scope i up to the root that hold key themselves
Owners(chain, i, key) ==
    {j \in 1..i : \E k \in 1..Len(chain[j].map) : chain[j].map[k].name = key}

Nearest(S) == CHOOSE j \in S : \A k \in S : k <= j

OwnValue(chain, j, key) ==
    chain[j].map[CHOOSE k \in 1..Len(chain[j].map) : chain[j].map[k].name = key].id

\* C12: get returns the entry of the nearest scope, from the scope itself up
\* to the root, that holds the name, and fails when none does; set changes
\* the scope it is called on only, after which get on that scope returns the
\* value set; get_no_parent and contains_no_parent answer from the scope's
\* own entries alone.
C12_ScopeLookupAndShadowing ==
    [][ /\ sres'.op = "get" =>
              IF Owners(scopes, sres'.i, sres'.key) = {} THEN ~sres'.ok
              ELSE /\ sres'.ok
                   /\ sres'.v = OwnValue(scopes, Nearest(Owners(scopes, sres'.i, sres'.key)),
                                         sres'.key)
        /\ sres'.op = "set" =>
              /\ \A j \in DOMAIN scopes : j # sres'.i => scopes'[j] = scopes[j]
              /\ getitem(scopes', sres'.i, sres'.key) = [ok |-> TRUE, v |-> sres'.v]
        /\ sres'.op = "get_no_parent" =>
              IF sres'.i \in Owners(scopes, sres'.i, sres'.key)
              THEN sres'.ok /\ sres'.v = OwnValue(scopes, sres'.i, sres'.key)
              ELSE ~sres'.ok
        /\ sres'.op = "contains_no_parent" =>
              (sres'.ok <=> sres'.i \in Owners(scopes, sres'.i, sres'.key))
      ]_vars

\* C12 witness: get_no_parent fails on a scope whose parent holds the name,
\* and the root holds the name with another value
C12_Witness ==
    /\ sres.op = "get_no_parent" /\ ~sres.ok /\ sres.i = 3
    /\ Owners(scopes, 3, sres.key) = {1, 2}
    /\ OwnValue(scopes, 1, sres.key) # OwnValue(scopes, 2, sres.key)

NoReturnStored(f) ==
    \A i \in 1..Len(f.allblocks) :
        \A k \in 1..Len(f.allblocks[i].insns) : f.allblocks[i].insns[k].k # "Return"

\* C13: no block of the function ever holds a Return.  An add that is passed
\* a Return fails, leaving the function as it was, when the block is
\* terminated and its force flag is not set (as for any other instruction);
\* otherwise it appends one Branch to the function's exit SuperBlock.
C13_ReturnStoredAsBranchToExit ==
    [][ /\ NoReturnStored(fn')
        /\ (fres'.op = "add" /\ fres'.insn = Return) =>
              IF Terminated(fn.allblocks[fres'.blk]) /\ ~fn.allblocks[fres'.blk].force
              THEN ~fres'.ok /\ fn' = fn
              ELSE /\ fres'.ok
                   /\ fn'.allblocks[fres'.blk].insns =
                         Append(fn.allblocks[fres'.blk].insns,
                                Branch(fn.allblocks[ExitIdx].name))
                   /\ \A i \in 1..Len(fn.allblocks) :
                         i # fres'.blk => fn'.allblocks[i] = fn.allblocks[i]
        /\ (fres'.op = "add" /\ fres'.insn # Return) =>
              (fres'.ok <=> ~(Terminated(fn.allblocks[fres'.blk])
                              /\ ~fn.allblocks[fres'.blk].force))
      ]_vars

\* C13 witness: a Return was added to a user block after a plain
\* instruction and a Return was added to the entry SuperBlock
C13_Witness ==
    /\ fres.op = "add" /\ fres.ok /\ fres.insn = Return /\ fres.blk > ExitIdx
    /\ fn.allblocks[fres.blk].insns = <<Plain, Branch(fn.allblocks[ExitIdx].name)>>
    /\ fn.allblocks[EntryIdx].insns # <<>>
    /\ Last(fn.allblocks[EntryIdx].insns) = Branch(fn.allblocks[ExitIdx].name)

\* C14 as stated: use_count() is 2 until the SuperBlock is cleared, and
\* afterwards the number of usage() calls since the last reset() or since
\* clearing, for the entry and for the exit SuperBlock alike.
C14_ClearedCountsUsageCalls ==
    ures.op = "use_count" =>
        ures.v = IF sblk[ures.i].clear THEN ures.calls[ures.i] ELSE 2

\* C14 amended: use_count() is 2 until the SuperBlock is cleared; afterwards
\* it is the number of usage() calls since the last reset() or since
\* clearing for the exit SuperBlock, and one more than that number for the
\* entry SuperBlock.
C14_EntryCountsOneMore ==
    ures.op = "use_count" =>
        ures.v = IF ~sblk[ures.i].clear THEN 2
                 ELSE IF ures.i = EntryIdx THEN ures.calls[ures.i] + 1
                 ELSE ures.calls[ures.i]

\* C14 witness: use_count() of the cleared entry SuperBlock, used twice
\* since, while the exit SuperBlock is still pinned
C14_Witness ==
    /\ ures.op = "use_count" /\ ures.i = EntryIdx /\ sblk[EntryIdx].clear
    /\ ures.calls[EntryIdx] = 2 /\ ures.v = 3
    /\ ~sblk[ExitIdx].clear /\ ures.calls[ExitIdx] > 0

\* the positions of the instructions of kind k in a list
Positions(insns, k) == {i \in 1..Len(insns) : insns[i].k = k}

\* the slot types of n densely laid out stack locals, base to tip
FrameTypes(n) == [k \in 1..n |-> LocalType(n - k)]

\* the instructions of both SuperBlocks, the entry's first
SuperInsns(f) == f.allblocks[EntryIdx].insns \o f.allblocks[ExitIdx].insns

\* C15: a variables_finalized that succeeds on a function with at least one
\* stack-resident local leaves one frame-push, the first instruction of the
\* entry SuperBlock, with the slot types from base to tip, and one frame-pop
\* ahead of every queued post-exit instruction; on a function without
\* stack-resident locals it leaves neither a frame-push nor a frame-pop.
C15_FramePushFirstPopBeforePostExit ==
    [][ (fres'.op = "variables_finalized" /\ fres'.ok) =>
          IF fn.locals = <<>>
          THEN /\ Positions(SuperInsns(fn'), "PushNewStackFrame") = {}
               /\ Positions(SuperInsns(fn'), "PopStack") = {}
          ELSE /\ Positions(SuperInsns(fn'), "PushNewStackFrame") = {1}
               /\ fn'.allblocks[EntryIdx].insns[1] =
                     PushNewStackFrame(FrameTypes(Len(fn.locals)))
               /\ Cardinality(Positions(SuperInsns(fn'), "PopStack")) = 1
               /\ \A i \in Positions(SuperInsns(fn'), "PopStack") :
                     \A j \in Positions(SuperInsns(fn'), "RunDeferredCallback") : i < j
      ]_vars

\* every user block ends with a terminator
AllUserBlocksTerminated(f) ==
    \A i \in 1..Len(blocks(f)) : Terminated(blocks(f)[i])

\* the instructions the entry SuperBlock of g holds beyond those of f's
AddedToEntry(f, g) ==
    SubSeq(g.allblocks[EntryIdx].insns,
           Len(f.allblocks[EntryIdx].insns) + 1, Len(g.allblocks[EntryIdx].insns))

\* where finalization puts its branch among the instructions it adds
BranchPosition(f) == IF f.locals = <<>> THEN 1 ELSE 2

OneBranchToFirstBlock(f, g) ==
    /\ Positions(AddedToEntry(f, g), "Branch") = {BranchPosition(f)}
    /\ AddedToEntry(f, g)[BranchPosition(f)] = Branch(blocks(f)[1].name)
    /\ SubSeq(g.allblocks[EntryIdx].insns, 1, Len(f.allblocks[EntryIdx].insns))
          = f.allblocks[EntryIdx].insns

\* C16 as stated: a variables_finalized that succeeds adds exactly one
\* Branch to the entry SuperBlock, to the first user block, and leaves the
\* entry SuperBlock terminated.
C16_EntryBranchesAndIsTerminated ==
    [][ (fres'.op = "variables_finalized" /\ fres'.ok) =>
          /\ OneBranchToFirstBlock(fn, fn')
          /\ Terminated(fn'.allblocks[EntryIdx])
      ]_vars

\* C16 amended: a variables_finalized that succeeds adds exactly one Branch
\* to the entry SuperBlock, to the first user block; the entry SuperBlock is
\* terminated afterwards unless every user block was terminated and a
\* frame-pop or a post-exit instruction was queued, in which case those
\* follow the Branch and the last instruction is not a terminator.
C16_EntryBranchesTerminatedUnlessFolded ==
    [][ (fres'.op = "variables_finalized" /\ fres'.ok) =>
          /\ OneBranchToFirstBlock(fn, fn')
          /\ Terminated(fn'.allblocks[EntryIdx]) <=>
                ~( /\ AllUserBlocksTerminated(fn)
                   /\ (fn.locals # <<>> \/ fn.post_exit_insns # <<>>) )
      ]_vars

\* C16 witness: finalization of a closed function without stack locals left
\* the deferred callback behind the branch of the entry SuperBlock
C16_Witness ==
    /\ fres.op = "variables_finalized" /\ fres.ok /\ fn.locals = <<>>
    /\ fn.allblocks[EntryIdx].insns =
          <<RevokeEventAdvancement(fn.name), Branch(blocks(fn)[1].name),
            RunDeferredCallback>>

\* the function as add_entry_exit leaves it, before the fold
BeforeFold(f) == add_entry_exit(f).f

\* C17: in a variables_finalized that succeeds, when every user block is
\* terminated the exit SuperBlock ends up empty and the entry SuperBlock
\* holds what it held before the fold followed by what the exit held, in
\* order and once each; when some user block is not terminated both lists
\* are what they were before the fold.
C17_DeadExitFolding ==
    [][ (fres'.op = "variables_finalized" /\ fres'.ok) =>
          IF AllUserBlocksTerminated(fn)
          THEN /\ fn'.allblocks[ExitIdx].insns = <<>>
               /\ fn'.allblocks[EntryIdx].insns =
                     BeforeFold(fn).allblocks[EntryIdx].insns
                        \o BeforeFold(fn).allblocks[ExitIdx].insns
          ELSE /\ fn'.allblocks[ExitIdx].insns = BeforeFold(fn).allblocks[ExitIdx].insns
               /\ fn'.allblocks[EntryIdx].insns = BeforeFold(fn).allblocks[EntryIdx].insns
      ]_vars

\* C17 witness: the frame-pop and the deferred callback were folded behind
\* the entry's branch, and the exit SuperBlock is empty
C17_Witness ==
    /\ fres.op = "variables_finalized" /\ fres.ok
    /\ AllUserBlocksTerminated(fn)
    /\ fn.allblocks[ExitIdx].insns = <<>>
    /\ Len(fn.allblocks[EntryIdx].insns) = 4
    /\ SubSeq(fn.allblocks[EntryIdx].insns, 2, 4) =
          <<Branch(blocks(fn)[1].name), PopStack, RunDeferredCallback>>

\* how many variables of one kind the scope lists before position i
Before(vs, i, kind) == Cardinality({j \in 1..(i - 1) : vs[j].kind = kind})

\* C18: after a variables_finalized that succeeds, the P parameter and R
\* return variables hold the offsets 0..P+R-1, each once: the parameters
\* 0..P-1 in declaration order, the return variables P..P+R-1 in order; and
\* every slot is one frame down exactly when the function has a
\* stack-resident local, which is exactly when a frame-push was inserted.
C18_ParameterSlotsDense ==
    [][ (fres'.op = "variables_finalized" /\ fres'.ok) =>
          /\ Len(fn'.slots) = Len(fn.params) + Len(fn.returns)
          /\ \A i \in 1..Len(fn'.slots) :
                /\ fn'.slots[i].proxy.set
                /\ fn'.slots[i].kind = "ParameterVariable" =>
                      fn'.slots[i].proxy.offset = Before(fn.slots, i, "ParameterVariable")
                /\ fn'.slots[i].kind = "ReturnVariable" =>
                      fn'.slots[i].proxy.offset =
                          Len(fn.params) + Before(fn.slots, i, "ReturnVariable")
                /\ fn'.slots[i].proxy.frame = IF fn.locals # <<>> THEN 1 ELSE 0
                /\ fn'.slots[i].proxy.frame = 1 <=>
                      Positions(SuperInsns(fn'), "PushNewStackFrame") # {}
          /\ {fn'.slots[i].proxy.offset : i \in 1..Len(fn'.slots)}
                = 0..(Len(fn.params) + Len(fn.returns) - 1)
      ]_vars

\* C18 witness: a function with a stack-resident local whose first return
\* variable was declared before its last parameter
C18_Witness ==
    /\ fres.op = "variables_finalized" /\ fres.ok /\ fn.locals # <<>>
    /\ Len(fn.slots) = 2 * MaxParams
    /\ fn.slots[1].kind = "ReturnVariable" /\ fn.slots[1].proxy.offset = MaxParams
    /\ fn.slots[Len(fn.slots)].kind = "ParameterVariable"
    /\ fn.slots[Len(fn.slots)].proxy.frame = 1

\* the deferred signatures of f that differ from f's parameters or returns
Differing(f) ==
    {i \in 1..Len(f.future_expect_sig) :
        \/ f.future_expect_sig[i].params # f.params
        \/ f.future_expect_sig[i].returns # f.returns}

\* C19: end() fails and changes nothing when the function has no user
\* block, is finished already or has a user block that was never defined;
\* otherwise it marks the function finished, and it succeeds exactly when
\* no deferred signature differs from the function's parameters and returns.
C19_EndReplaysDeferredSignatures ==
    [][ fres'.op = "end" =>
          IF \/ blocks(fn) = <<>>
             \/ fn.finished
             \/ \E i \in 1..Len(blocks(fn)) : ~blocks(fn)[i].defined
          THEN ~fres'.ok /\ fn' = fn
          ELSE /\ fn' = [fn EXCEPT !.finished = TRUE]
               /\ fres'.ok <=> Differing(fn) = {}
      ]_vars

\* C19 witness: end() failed on the last of two deferred signatures, the
\* first of which agrees with the function's
C19_Witness ==
    /\ fres.op = "end" /\ ~fres.ok /\ fn.finished
    /\ fn.params # <<>>
    /\ Differing(fn) = {2}

\* C20: a variables-finalized function is finished; a finished function
\* stays finished and a finalized one finalized; variables_finalized fails
\* on a function that is finalized already.
C20_LifecycleMovesForward ==
    [][ /\ fn'.varsfinalized => fn'.finished
        /\ fn.finished => fn'.finished
        /\ fn.varsfinalized => fn'.varsfinalized
        /\ (fres'.op = "variables_finalized" /\ fn.varsfinalized) => ~fres'.ok
      ]_vars

\* the name create_block gives a block asked for under hint when the names
\* of taken are in use: the hint, or the hint with the first free number
FreshName(hint, taken) ==
    IF hint \notin taken THEN hint
    ELSE hint \o Digits[CHOOSE d \in 1..Len(Digits) :
                           /\ (hint \o Digits[d]) \notin taken
                           /\ \A e \in 1..(d - 1) : (hint \o Digits[e]) \in taken]

\* the names in use in the target when the copy of source block k is made
TakenBefore(before, after, k) ==
    BlockNames(before.f) \cup VarNames(after)
        \cup {after.f.allblocks[Len(before.f.allblocks) + j].name : j \in 1..(k - 1)}

\* one new block per source block, with its flags, behind the old blocks,
\* which are kept as they were
OneFreshBlockPerSourceBlock(src, before, after) ==
    /\ Len(after.f.allblocks) = Len(before.f.allblocks) + Len(src.allblocks)
    /\ \A b \in 1..Len(before.f.allblocks) :
          after.f.allblocks[b] = before.f.allblocks[b]
    /\ \A k \in 1..Len(src.allblocks) :
          /\ after.f.allblocks[Len(before.f.allblocks) + k].defined
                = src.allblocks[k].defined
          /\ after.f.allblocks[Len(before.f.allblocks) + k].is_function
                = src.allblocks[k].is_function
          /\ after.f.allblocks[Len(before.f.allblocks) + k].name
                \notin BlockNames(before.f)

\* C21 as stated: a successful inline_into adds one block per source block
\* with the source block's name and flags, keeps the old blocks, and returns
\* the blocks made for the source's entry and exit SuperBlocks.
C21_FreshBlocksKeepNames ==
    [][ (ires.op = "none" /\ ires'.op = "inline_into" /\ ires'.ok) =>
          /\ OneFreshBlockPerSourceBlock(fn, caller, caller')
          /\ \A k \in 1..Len(fn.allblocks) :
                caller'.f.allblocks[Len(caller.f.allblocks) + k].name
                    = fn.allblocks[k].name
          /\ ires'.entry = Len(caller.f.allblocks) + EntryIdx
          /\ ires'.exit = Len(caller.f.allblocks) + ExitIdx
      ]_vars

\* C21 amended: a successful inline_into adds one block per source block,
\* with the source block's flags and under the source block's name when
\* that name is free in the target and the name with the first free number
\* otherwise, keeps the old blocks, and returns the blocks made for the
\* source's first user block and for its exit SuperBlock.
C21_FreshBlocksUniquelyNamed ==
    [][ (ires.op = "none" /\ ires'.op = "inline_into" /\ ires'.ok) =>
          /\ OneFreshBlockPerSourceBlock(fn, caller, caller')
          /\ \A k \in 1..Len(fn.allblocks) :
                caller'.f.allblocks[Len(caller.f.allblocks) + k].name
                    = FreshName(fn.allblocks[k].name, TakenBefore(caller, caller', k))
          /\ ires'.entry = Len(caller.f.allblocks) + ExitIdx + 1
          /\ ires'.exit = Len(caller.f.allblocks) + ExitIdx
      ]_vars

\* C21 witness: a source with two user blocks was inlined into a caller
\* that had a block b; the copies are 0entry0, 0ret0, b0 and b00
C21_Witness ==
    /\ ires.op = "inline_into" /\ ires.ok
    /\ Len(fn.allblocks) = 4
    /\ [k \in 1..4 |-> caller.f.allblocks[Len(caller.f.allblocks) - 4 + k].name]
          = <<"0entry0", "0ret0", "b0", "b00">>
    /\ ires.entry = Len(caller.f.allblocks) - 1

\* the ids the units sel of ts hold under name as objects of a kind
HeldAs(heap, ts, sel, name, kind) ==
    UNION {{ts[sel[i]].scope[k].id :
              k \in {j \in 1..Len(ts[sel[i]].scope) :
                        /\ ts[sel[i]].scope[j].name = name
                        /\ heap[ts[sel[i]].scope[j].id].kind = kind}} :
           i \in 1..Len(sel)}

\* the names the units sel hold stubs for and no genuine definition
Unresolved(heap, ts, sel) ==
    {name \in FuncNames \cup {CallerName(u) : u \in Units} :
        /\ HeldAs(heap, ts, sel, name, "extern") # {}
        /\ HeldAs(heap, ts, sel, name, "func") = {}}

\* the positions <<function, block, instruction, operand>> of the operands
\* of the blocks of the functions of a scope
OperandPositions(heap, scope) ==
    {q \in {scope[i].id : i \in {j \in 1..Len(scope) : heap[scope[j].id].kind = "func"}}
             \X (1..(MaxBlocks + ExitIdx)) \X (1..(MaxInsns + 1)) \X (1..2) :
        /\ q[2] <= Len(heap[q[1]].allblocks)
        /\ q[3] <= Len(heap[q[1]].allblocks[q[2]].insns)
        /\ q[4] <= Len(heap[q[1]].allblocks[q[2]].insns[q[3]].a)}

OperandAt(heap, q) == heap[q[1]].allblocks[q[2]].insns[q[3]].a[q[4]]

\* C22: after a link of two or more units, a name with stubs and no genuine
\* definition is held once by the merged root scope, as one of its stubs,
\* and every block operand that was a stub of the name is that stub.
C22_StubsUnifyToOneRepresentative ==
    [][ (linked.status = "none" /\ linked'.status = "ok" /\ Len(linked'.units) >= 2) =>
          \A name \in Unresolved(objs, tops, linked'.units) :
             /\ Cardinality({i \in 1..Len(linked'.top.scope) :
                    \/ linked'.top.scope[i].name = name
                    \/ linked'.top.scope[i].id
                          \in HeldAs(objs, tops, linked'.units, name, "extern")}) = 1
             /\ scope_get(linked'.top.scope, name)
                    \in HeldAs(objs, tops, linked'.units, name, "extern")
             /\ \A q \in OperandPositions(objs', linked'.top.scope) :
                    OperandAt(objs, q) \in HeldAs(objs, tops, linked'.units, name, "extern")
                       => OperandAt(objs', q) = scope_get(linked'.top.scope, name)
      ]_vars

\* C22 witness: two units that each call their own stub of f were linked;
\* the call of the second unit now has the first unit's stub as its operand
C22_Witness ==
    /\ linked.status = "ok" /\ linked.units = <<1, 2>>
    /\ ExternId(2, "f") \in {tops[2].scope[k].id : k \in 1..Len(tops[2].scope)}
    /\ "f" \in scope_names(linked.top.scope)
    /\ scope_get(linked.top.scope, "f") = ExternId(1, "f")
    /\ FuncId(2, CallerName(2)) \in DOMAIN objs
    /\ objs[FuncId(2, CallerName(2))].allblocks[ExitIdx + 1].insns[1]
          = Invoke(ExternId(1, "f"))

\* the concatenation of one field of the linked units, in argument order
RECURSIVE Concatenated(_, _)
Concatenated(sel, field) ==
    IF sel = <<>> THEN <<>>
    ELSE tops[Head(sel)][field] \o Concatenated(Tail(sel), field)

\* C23: a link that is passed a unit that is not finished fails; a link of
\* one unit returns that unit; a link of several units returns a unit whose
\* preamble and pragma list are the units' concatenated in argument order;
\* the unit a link returns is finished.
C23_LinkerTakesAndReturnsFinishedUnits ==
    linked.status # "none" =>
        /\ (\E i \in 1..Len(linked.units) : ~tops[linked.units[i]].finished)
              => linked.status = "failed"
        /\ linked.status = "ok" =>
              /\ linked.top.finished
              /\ Len(linked.units) = 1 => linked.top = tops[linked.units[1]]
              /\ Len(linked.units) >= 2 =>
                    /\ linked.top.preamble = Concatenated(linked.units, "preamble")
                    /\ linked.top.pragmas = Concatenated(linked.units, "pragmas")

\* C24: between calls no block of the function has its force flag set, and
\* an add to a block that ends with a terminator fails, on every block.
C24_ForceOnlyInsideFinalization ==
    [][ /\ \A i \in 1..Len(fn'.allblocks) : ~fn'.allblocks[i].force
        /\ (fres'.op = "add" /\ Terminated(fn.allblocks[fres'.blk])) => ~fres'.ok
      ]_vars

\* C25: for_value without the parent returns a name only if the scope maps
\* that name to the value, and fails for a value no name of the scope maps to.
C25_ReverseMapFollowsForwardMap ==
    (sres.op = "for_value" /\ ~sres.look_parent) =>
        IF \E k \in 1..Len(scopes[sres.i].map) : scopes[sres.i].map[k].id = sres.key
        THEN /\ sres.ok
             /\ \E k \in 1..Len(scopes[sres.i].map) :
                   /\ scopes[sres.i].map[k].name = sres.v
                   /\ scopes[sres.i].map[k].id = sres.key
        ELSE ~sres.ok

\* C26: a failed add changes nothing: after an add that failed, whatever the
\* reason, the sequence's instruction list and the holder's scope are the
\* ones before the call
C26_FailedAddChangesNothing ==
    (qres.op = "add" /\ ~qres.ok) =>
        /\ seq_insns(seq, qres.target) = seq_insns(qres.before, qres.target)
        /\ seq.scope = qres.before.scope

\* C27: a failed IRFunction.end() leaves the function unfinished: when end()
\* is called on an unfinished function and fails, for whatever reason,
\* finished is still false afterwards
C27_FailedEndLeavesUnfinished ==
    [][(fres'.op = "end" /\ ~fres'.ok /\ ~fn.finished) => ~fn'.finished]_vars

\* the cells of the free list
FreeCells(p) == {p.temps[i] : i \in 1..Len(p.temps)}

\* the pool p and the objectives w declared so far agree: no cell is both
\* free and checked out, none is twice in the free list, the two together
\* are temp_0 .. temp_(counter-1), and each of these was declared once, in
\* the order of minting
Conserved(p, w) ==
    /\ FreeCells(p) \cap p.in_use = {}
    /\ Cardinality(FreeCells(p)) = Len(p.temps)
    /\ FreeCells(p) \cup p.in_use = {TempName(n) : n \in 0..(p.counter - 1)}
    /\ w = [n \in 1..p.counter |-> Event("write_objective", <<TempName(n - 1)>>)]

\* C28: scratch pool conservation: after every allocate and free the
\* checked-out set and the free list are disjoint and without duplicates,
\* their union is the cells minted so far, each minted cell was declared to
\* the writer exactly once and before it is first handed out; the counter
\* never decreases and grows, by one, only when the free list is empty
C28_PoolConservation ==
    [][ /\ Conserved(pool, written) /\ Conserved(pool', written')
        /\ pool'.counter >= pool.counter
        /\ pool'.counter # pool.counter =>
              /\ pool.temps = <<>>
              /\ pool'.counter = pool.counter + 1
              /\ pres'.op = "next" /\ pres'.v = TempName(pool.counter)
        /\ pres'.op = "next" =>
              \E i \in 1..Len(written') :
                  written'[i] = Event("write_objective", <<pres'.v>>)
      ]_vars

\* C28 witness: with two cells minted and both freed, an allocation hands
\* out a free cell again and leaves the other on the free list
C28_Witness ==
    /\ pres.op = "next"
    /\ pool.counter = 2
    /\ pool.temps # <<>>
    /\ pres.v \in pool.in_use
    /\ Len(written) = 2
====
